---- MODULE Spec2Model ----
(***************************************************************************)
(* Verification model of the antora-lunr-extension fork:                   *)
(*   - the Levenshtein trie        (lib/levenshtein_patricia_trie.js)      *)
(*   - the highlight engine        (search-result-highlighting.mjs)        *)
(*   - the client query orchestrator (data/js/index.js)                    *)
(*   - the index builder           (lib/generate-index.js, lib/index.js)   *)
(* Strings are sequences of one-character strings.                         *)
(***************************************************************************)
EXTENDS Integers, Sequences, FiniteSets, TLC

VARIABLES
    \* ---- LevenshteinTrie ----
    root,          \* this.root of the build-side LevenshteinTrie
    inserted,      \* history: the <<word, data>> pairs passed to insertWithData
    lastOp,        \* the operation that produced the current state
    query,         \* argument `word` of the last searchWithLevenshteinWithData
    maxDistance,   \* argument `maxDistance` of the last search
    results,       \* array returned by the last search
    saved,         \* string returned by the last save() (as its JSON tree)
    savedFrom,     \* the root that save() serialized
    threw,         \* exception raised by the last operation ("" when none)
    \* ---- buildHighlightedText ----
    text, positions, snippetLength, hl,
    \* ---- client: searchIndex / search / executeSearch ----
    site,          \* the documents generateIndex extracted (build order)
    facetChecked,  \* facetFilterInput.checked
    inputValue,    \* searchInput.value
    container,     \* children of searchResultContainer
    trace,         \* what the last executeSearch did
    debug,         \* the page URL has the lunr-debug parameter
    consoleLog,    \* console messages of the last executeSearch
    escaped,       \* exception that left the last executeSearch ("" when none)
    \* ---- build side: generateIndex / beforePublish ----
    pages,           \* the pages of the content catalog, in catalog order
    indexLatestOnly, \* config.indexLatestOnly
    buildOp,         \* "init", "generateIndex" or "beforePublish"
    contentsRead,    \* positions of the pages whose contents was read
    generated,       \* the value generateIndex returned
    siteCatalog,     \* files added to the site catalog
    buildThrew,      \* exception that left the build operation ("" when none)
    \* ---- client: initSearch run on the artifact of createIndexFile ----
    clientIndex,     \* the `index` object initSearch builds, and how initSearch ended
    \* ---- load(jsonString) applied to an arbitrary text ----
    loadSide,        \* "build" (LevenshteinTrie) or "client" (LevenshteinTrieUser)
    loadArg,         \* the text passed to load
    loadRoot,        \* this.root after load
    loadThrew,       \* exception load raised ("" when none; "-" before the call)
    \* ---- client: the listeners initSearch registers ----
    timers,          \* the browser's pending timers: <<[id, remaining, args]>>
    timeout,         \* `timeout` of the debounce closure: a timer id, or 0 for null
    keydownCount,    \* history: number of keydown events
    sinceKeydown,    \* history: time since the last keydown, up to the wait
    lastKey,         \* history: e.key of the last keydown
    runs,            \* history: the runs of the debounced callback
    lastQuery,       \* history: searchInput.value and the facet state of the last execution
    \* ---- client: findTermPosition / highlightHit ----
    ftArgs,          \* arguments (term, text) of findTermPosition
    ftResult,        \* the position it returned
    hitArgs,         \* arguments (searchMetadata, sectionTitle, doc) of highlightHit
    hitNodes         \* the node lists it returned

trieVars == <<root, inserted, lastOp, query, maxDistance, results, saved, savedFrom, threw>>
hlVars == <<text, positions, snippetLength, hl>>
clientVars == <<site, facetChecked, inputValue, container, trace, debug, consoleLog, escaped>>
buildVars == <<pages, indexLatestOnly, buildOp, contentsRead, generated, siteCatalog, buildThrew>>
artifactVars == <<clientIndex>>
loadVars == <<loadSide, loadArg, loadRoot, loadThrew>>
uiVars == <<timers, timeout, keydownCount, sinceKeydown, lastKey, runs, lastQuery>>
hitVars == <<ftArgs, ftResult, hitArgs, hitNodes>>
moreVars == <<artifactVars, loadVars, uiVars, hitVars>>
vars == <<root, inserted, lastOp, query, maxDistance, results, saved, savedFrom, threw,
          text, positions, snippetLength, hl,
          site, facetChecked, inputValue, container, trace, debug, consoleLog, escaped,
          pages, indexLatestOnly, buildOp, contentsRead, generated, siteCatalog, buildThrew,
          clientIndex, loadSide, loadArg, loadRoot, loadThrew,
          timers, timeout, keydownCount, sinceKeydown, lastKey, runs, lastQuery,
          ftArgs, ftResult, hitArgs, hitNodes>>

(***************************************************************************)
(* Bounds                                                                  *)
(***************************************************************************)
MaxQueryLen == 2
MaxInserts == 2
MaxDist == 3
MaxTextLen == 5
MaxPosLen == 2
MaxSnippet == 3
MaxInputLen == 2
MaxPages == 2
MaxKeydowns == 3

Chars == {"a", "b"}
\* the terms and the data offered to insertWithData
Terms == {<<>>, <<"a">>, <<"b">>, <<"a", "a">>, <<"a", "b">>, <<"b", "a">>}
DocIds == {1, 2}

RECURSIVE SeqsUpTo(_, _)
SeqsUpTo(S, n) ==
    IF n = 0 THEN {<<>>}
    ELSE LET shorter == SeqsUpTo(S, n - 1)
         IN shorter \cup {Append(s, c) : s \in {t \in shorter : Len(t) = n - 1}, c \in S}

Queries == SeqsUpTo(Chars, MaxQueryLen)
Distances == 0..MaxDist
\* the distances a caller passes, a negative one included
SearchDistances == Distances \cup {-1}

Min2(x, y) == IF x <= y THEN x ELSE y
Range(sq) == {sq[k] : k \in 1..Len(sq)}

(***************************************************************************)
(* TrieNode / LevenshteinTrie                                              *)
(***************************************************************************)
\* children: the Map, as its entries <<char, node>> in insertion order.
\* dataKind: the class of the object held in `data` ("Array" or "Map").
TrieNode == [children |-> <<>>, isEndOfWord |-> FALSE, data |-> <<>>, dataKind |-> "Array"]

\* index of the entry of `children` keyed by char, 0 when children.has(char) is false
ChildIndex(children, char) ==
    IF \E k \in 1..Len(children) : children[k][1] = char
    THEN CHOOSE k \in 1..Len(children) : children[k][1] = char
    ELSE 0

\* insertWithData: the node tree after the call.  When the terminal node's
\* data is not an Array, push throws after isEndOfWord was set (insertThrows).
\* insertNode with the terminal node's data replaced instead of extended
RECURSIVE insertNodeOverwrite(_, _, _)
insertNodeOverwrite(node, word, data) ==
    IF word = <<>>
    THEN [node EXCEPT !.isEndOfWord = TRUE, !.data = <<data>>]
    ELSE LET char == Head(word)
             k == ChildIndex(node.children, char)
         IN IF k = 0
            THEN [node EXCEPT !.children =
                     Append(@, <<char, insertNodeOverwrite(TrieNode, Tail(word), data)>>)]
            ELSE [node EXCEPT !.children[k] =
                     <<char, insertNodeOverwrite(node.children[k][2], Tail(word), data)>>]

RECURSIVE insertNode(_, _, _)
insertNode(node, word, data) ==
    IF word = <<>>
    THEN IF node.dataKind = "Array"
         THEN [node EXCEPT !.isEndOfWord = TRUE, !.data = Append(@, data)]
         ELSE [node EXCEPT !.isEndOfWord = TRUE]
    ELSE LET char == Head(word)
             k == ChildIndex(node.children, char)
         IN IF k = 0
            THEN [node EXCEPT !.children =
                     Append(@, <<char, insertNode(TrieNode, Tail(word), data)>>)]
            ELSE [node EXCEPT !.children[k] =
                     <<char, insertNode(node.children[k][2], Tail(word), data)>>]

RECURSIVE nodeAt(_, _)
\* <<the node reached from `node` along `word`>>, or <<>> when there is none
nodeAt(node, word) ==
    IF word = <<>> THEN <<node>>
    ELSE LET k == ChildIndex(node.children, Head(word))
         IN IF k = 0 THEN <<>> ELSE nodeAt(node.children[k][2], Tail(word))

insertThrows(node, word) ==
    LET n == nodeAt(node, word) IN n # <<>> /\ n[1].dataKind # "Array"

Min3(x, y, z) == Min2(x, Min2(y, z))

\* levenshteinDistance counting only the difference of the lengths
levenshteinDistanceOfLengths(a, b) ==
    IF Len(a) > Len(b) THEN Len(a) - Len(b) ELSE Len(b) - Len(a)

\* levenshteinDistance: the dynamic-programming matrix of the code

levenshteinDistance(a, b) ==
    IF Len(a) = 0 THEN Len(b)
    ELSE IF Len(b) = 0 THEN Len(a)
    ELSE LET matrix[i \in 0..Len(b), j \in 0..Len(a)] ==
                 IF j = 0 THEN i
                 ELSE IF i = 0 THEN j
                 ELSE IF b[i] = a[j] THEN matrix[i - 1, j - 1]
                 ELSE Min3(matrix[i - 1, j - 1] + 1, matrix[i, j - 1] + 1, matrix[i - 1, j] + 1)
         IN matrix[Len(b), Len(a)]

\* _searchRecursiveWithData: the entries pushed to `results`, in push order.
\* currentIndex is 0-based as in the code; targetWord[currentIndex] is tw[ci + 1].
RECURSIVE searchRecursiveWithData(_, _, _, _, _)
RECURSIVE searchChildren(_, _, _, _, _, _)
\* searchRecursiveWithData accepting a word only when its distance equals the
\* remaining budget
searchRecursiveExactBudget(node, currentWord, targetWord, currentIndex, maxDist) ==
    IF currentIndex > Len(targetWord) /\ node.isEndOfWord
    THEN <<[word |-> currentWord, data |-> node.data]>>
    ELSE IF maxDist < 0 THEN <<>>
    ELSE (IF node.isEndOfWord /\ levenshteinDistance(currentWord, targetWord) = maxDist
          THEN <<[word |-> currentWord, data |-> node.data]>>
          ELSE <<>>)
         \o searchChildren(node, currentWord, targetWord, currentIndex, maxDist, 1)

searchRecursiveWithData(node, currentWord, targetWord, currentIndex, maxDist) ==
    IF currentIndex > Len(targetWord) /\ node.isEndOfWord
    THEN <<[word |-> currentWord, data |-> node.data]>>
    ELSE IF maxDist < 0 THEN <<>>
    ELSE (IF node.isEndOfWord /\ levenshteinDistance(currentWord, targetWord) <= maxDist
          THEN <<[word |-> currentWord, data |-> node.data]>>
          ELSE <<>>)
         \o searchChildren(node, currentWord, targetWord, currentIndex, maxDist, 1)

searchChildren(node, currentWord, targetWord, currentIndex, maxDist, k) ==
    IF k > Len(node.children) THEN <<>>
    ELSE LET char == node.children[k][1]
             childNode == node.children[k][2]
             next == Append(currentWord, char)
         IN (IF currentIndex < Len(targetWord)
             THEN IF char = targetWord[currentIndex + 1]
                  THEN searchRecursiveWithData(childNode, next, targetWord, currentIndex + 1, maxDist)
                  ELSE searchRecursiveWithData(childNode, next, targetWord, currentIndex + 1, maxDist - 1)
                       \o searchRecursiveWithData(node, currentWord, targetWord, currentIndex + 1, maxDist - 1)
                       \o searchRecursiveWithData(childNode, next, targetWord, currentIndex, maxDist - 1)
             ELSE searchRecursiveWithData(childNode, next, targetWord, currentIndex, maxDist - 1))
            \o searchChildren(node, currentWord, targetWord, currentIndex, maxDist, k + 1)

searchWithLevenshteinWithData(r, word, maxDist) ==
    searchRecursiveWithData(r, <<>>, word, 0, maxDist)

(***************************************************************************)
(* save / load.  A JSON text is modelled by its syntax tree:               *)
(*   [t |-> "prim", v |-> x], [t |-> "array", v |-> <<...>>],              *)
(*   [t |-> "object", v |-> [name |-> ...]].                               *)
(***************************************************************************)
JPrim(x) == [t |-> "prim", v |-> x]
JArray(s) == [t |-> "array", v |-> s]
JObject(r) == [t |-> "object", v |-> r]
Undefined == [t |-> "undefined", v |-> 0]
Thrown == [t |-> "throw", v |-> "TypeError"]
NoJson == [t |-> "none", v |-> 0]

\* save(): JSON.stringify with the replacer turning every Map into the array
\* of its [key, value] entries; `data` is an array already, or an (empty) Map.
RECURSIVE save(_)
save(node) ==
    JObject([children |-> JArray([k \in 1..Len(node.children) |->
                             JArray(<<JPrim(node.children[k][1]), save(node.children[k][2])>>)]),
             isEndOfWord |-> JPrim(node.isEndOfWord),
             data |-> JArray([k \in 1..Len(node.data) |-> JPrim(node.data[k])])])

\* new Map(iterable): every item must be an object, else TypeError
\* ("Iterator value x is not an entry object"); the entry is <<item[0], item[1]>>,
\* which is <<undefined, undefined>> for a Map or a plain object.
newMap(items) ==
    IF \E k \in 1..Len(items) : items[k].t = "prim"
    THEN Thrown
    ELSE [t |-> "map", v |-> IF Len(items) = 0 THEN <<>> ELSE <<<<Undefined, Undefined>>>>]

\* the reviver of load(): JSON.parse calls it bottom-up on every value, and it
\* replaces every array (Array.isArray(value)) by new Map(value).
RECURSIVE revive(_)
revive(j) ==
    IF j.t = "array"
    THEN LET items == [k \in 1..Len(j.v) |-> revive(j.v[k])]
         IN IF \E k \in 1..Len(items) : items[k].t = "throw" THEN Thrown ELSE newMap(items)
    ELSE IF j.t = "object"
    THEN LET props == [f \in DOMAIN j.v |-> revive(j.v[f])]
         IN IF \E f \in DOMAIN props : props[f].t = "throw" THEN Thrown ELSE JObject(props)
    ELSE j

\* the object a successful JSON.parse leaves in this.root, read as a node:
\* children and data are the Maps the reviver built
loadedRoot(r) ==
    [children |-> r.v.children.v, isEndOfWord |-> r.v.isEndOfWord.v,
     data |-> <<>>, dataKind |-> "Map"]

\* load(jsonString): the new this.root; `current` stays when JSON.parse throws
load(current, jsonString) ==
    LET r == revive(jsonString)
    IN IF r.t = "throw" THEN current ELSE loadedRoot(r)

loadThrows(jsonString) == revive(jsonString).t = "throw"

\* values this.root can hold after load: a node tree, the value JSON.parse
\* returned, or (client side) the text itself
NodeRoot(node) == [t |-> "node", v |-> node]
StringRoot(jsonString) == [t |-> "string", v |-> jsonString]

\* JSON.parse rejects a text that is not JSON (a proper prefix of an object
\* text, or arbitrary characters) with a SyntaxError
isJsonText(jsonString) == jsonString.t \in {"prim", "array", "object"}

\* LevenshteinTrie.load(jsonString) on any text: this.root is assigned only when
\* JSON.parse (with the reviver) returns, and then whatever it returned
loadAny(current, jsonString) ==
    IF ~isJsonText(jsonString)
    THEN [root |-> NodeRoot(current), threw |-> "SyntaxError"]
    ELSE LET r == revive(jsonString)
         IN IF r.t = "throw"
            THEN [root |-> NodeRoot(current), threw |-> "TypeError"]
            ELSE [root |-> r, threw |-> ""]

\* LevenshteinTrieUser.load(jsonString): the parse is commented out and
\* this.root = jsonString
loadUser(current, jsonString) == [root |-> StringRoot(jsonString), threw |-> ""]

(***************************************************************************)
(* buildHighlightedText (search-result-highlighting.mjs)                   *)
(***************************************************************************)
\* the three-character string '...', one element of a modelled string
Ellipsis == "..."

\* String.prototype.slice(from, to) for 0 <= from, 0 <= to
Slice(str, from, to) ==
    LET e == Min2(to, Len(str))
    IN IF e <= from THEN <<>> ELSE SubSeq(str, from + 1, e)

\* Array.prototype.sort((p1, p2) => p1.start - p2.start): stable, ascending
RECURSIVE InsertByStart(_, _)
InsertByStart(sorted, p) ==
    IF sorted = <<>> THEN <<p>>
    ELSE IF p.start < sorted[Len(sorted)].start
         THEN Append(InsertByStart(SubSeq(sorted, 1, Len(sorted) - 1), p), sorted[Len(sorted)])
         ELSE Append(sorted, p)

RECURSIVE SortByStart(_)
SortByStart(ps) ==
    IF ps = <<>> THEN <<>>
    ELSE InsertByStart(SortByStart(SubSeq(ps, 1, Len(ps) - 1)), ps[Len(ps)])

isValidPosition(position, textLength) ==
    position.length > 0 /\ position.start + position.length <= textLength

validPositions(txt, ps) == SelectSeq(ps, LAMBDA position : isValidPosition(position, Len(txt)))

\* the single node returned when no valid position remains, with the
\* ellipsis appended also when the text fits exactly
noPositionNodesEager(txt, snippetLen) ==
    <<[type |-> "text",
       text |-> Slice(txt, 0, IF snippetLen >= Len(txt) THEN Len(txt) ELSE snippetLen)
                \o (IF snippetLen <= Len(txt) THEN <<Ellipsis>> ELSE <<>>)]>>

\* the single node returned when no valid position remains
noPositionNodes(txt, snippetLen) ==
    <<[type |-> "text",
       text |-> Slice(txt, 0, IF snippetLen >= Len(txt) THEN Len(txt) ELSE snippetLen)
                \o (IF snippetLen < Len(txt) THEN <<Ellipsis>> ELSE <<>>)]>>

\* the excerpt window `range` around the first position
snippetRange(txt, firstPosition, snippetLen) ==
    IF snippetLen # 0 /\ Len(txt) > snippetLen
    THEN LET firstPositionEnd == firstPosition.start + firstPosition.length
         IN [start |-> IF firstPosition.start - snippetLen < 0 THEN 0
                       ELSE firstPosition.start - snippetLen,
             end |-> IF firstPositionEnd + snippetLen > Len(txt) THEN Len(txt)
                     ELSE firstPositionEnd + snippetLen]
    ELSE [start |-> 0, end |-> Len(txt)]

positionsWithinRange(ordered, range) ==
    SelectSeq(ordered, LAMBDA position :
        position.start >= range.start /\ position.start + position.length <= range.end)

\* the nodes pushed by the loop over positionsWithinRange from its k-th
\* position on, lastEndPosition being the value left by the one before
RECURSIVE markNodes(_, _, _, _)
markNodes(txt, within, k, lastEndPosition) ==
    IF k > Len(within) THEN <<>>
    ELSE LET start == within[k].start
             end == start + within[k].length
         IN (IF lastEndPosition > 0
             THEN <<[type |-> "text", text |-> Slice(txt, lastEndPosition, start)]>>
             ELSE <<>>)
            \o <<[type |-> "mark", text |-> Slice(txt, start, end)]>>
            \o markNodes(txt, within, k + 1, end)

\* lastEndPosition after the loop
lastEndAfter(within) ==
    IF within = <<>> THEN 0
    ELSE within[Len(within)].start + within[Len(within)].length

buildHighlightedText(txt, ps, snippetLen) ==
    LET valid == validPositions(txt, ps)
    IN IF Len(valid) = 0
       THEN [nodes |-> noPositionNodes(txt, snippetLen), range |-> [start |-> 0, end |-> 0]]
       ELSE LET ordered == SortByStart(valid)
                firstPosition == ordered[1]
                range == snippetRange(txt, firstPosition, snippetLen)
                within == positionsWithinRange(ordered, range)
                lastEndPosition == lastEndAfter(within)
            IN [nodes |->
                   (IF firstPosition.start > 0
                    THEN <<[type |-> "text",
                            text |-> (IF range.start > 0 THEN <<Ellipsis>> ELSE <<>>)
                                     \o Slice(txt, range.start, firstPosition.start)]>>
                    ELSE <<>>)
                   \o markNodes(txt, within, 1, 0)
                   \o (IF lastEndPosition < range.end
                       THEN <<[type |-> "text",
                               text |-> Slice(txt, lastEndPosition, range.end)
                                        \o (IF range.end < Len(txt) THEN <<Ellipsis>> ELSE <<>>)]>>
                       ELSE <<>>),
                range |-> range]

(***************************************************************************)
(* The index and the trie generateIndex builds from the extracted          *)
(* documents (lib/generate-index.js).  A document has at least the fields  *)
(*   id, text, component, titles; a title has id and text (and hash);      *)
(* the indexed fields of a document are represented by its text.           *)
(***************************************************************************)
Lower(c) == IF c = "A" THEN "a" ELSE IF c = "B" THEN "b" ELSE c
toLowerCase(str) == [k \in 1..Len(str) |-> Lower(str[k])]

\* text.split(' ').join('_')
joinUnderscore(str) == [k \in 1..Len(str) |-> IF str[k] = " " THEN "_" ELSE str[k]]

\* String(n) / `${n}`: the decimal digits of a non-negative integer
Digits == <<"0", "1", "2", "3", "4", "5", "6", "7", "8", "9">>

RECURSIVE toString(_)
toString(n) ==
    IF n < 10 THEN <<Digits[n + 1]>>
    ELSE toString(n \div 10) \o <<Digits[(n % 10) + 1]>>

\* str.split(sep) for a one-character separator: the parts, '' included
RECURSIVE splitFrom(_, _, _)
splitFrom(str, sep, cur) ==
    IF str = <<>> THEN <<cur>>
    ELSE IF Head(str) = sep THEN <<cur>> \o splitFrom(Tail(str), sep, <<>>)
         ELSE splitFrom(Tail(str), sep, Append(cur, Head(str)))

split(str, sep) == splitFrom(str, sep, <<>>)

\* the characters \s matches
Whitespace == {" ", "\t"}

\* lunr.tokenizer: lower-cased tokens, split on whitespace and hyphens
RECURSIVE tokenize(_, _)
tokenize(str, cur) ==
    IF str = <<>> THEN (IF cur # <<>> THEN {cur} ELSE {})
    ELSE IF Head(str) \in Whitespace \cup {"-"}
         THEN (IF cur # <<>> THEN {cur} ELSE {}) \cup tokenize(Tail(str), <<>>)
         ELSE tokenize(Tail(str), Append(cur, Lower(Head(str))))

\* this.add({ id: `${doc.id}-${title.id}`, title: title.text }) for every title,
\* then this.add(doc).  A ref is the string lunr keeps for the document.
docEntry(doc) == [ref |-> toString(doc.id), terms |-> tokenize(doc.text, <<>>)]

\* the title ref without the separator
titleRefNoSeparator(docId, titleId) == toString(docId) \o toString(titleId)

\* `${doc.id}-${title.id}`
titleRef(docId, titleId) == toString(docId) \o <<"-">> \o toString(titleId)

titleEntries(doc) ==
    [k \in 1..Len(doc.titles) |->
        [ref |-> titleRef(doc.id, doc.titles[k].id),
         terms |-> tokenize(doc.titles[k].text, <<>>)]]

RECURSIVE buildIndex(_)
buildIndex(documents) ==
    IF documents = <<>> THEN <<>>
    ELSE titleEntries(documents[1]) \o <<docEntry(documents[1])>> \o buildIndex(Tail(documents))

\* the titles inserted as they are written, not lower-cased
RECURSIVE insertTitlesRaw(_, _, _)
insertTitlesRaw(node, doc, k) ==
    IF k > Len(doc.titles) THEN node
    ELSE insertTitlesRaw(insertNode(node, joinUnderscore(doc.titles[k].text), doc.id),
                         doc, k + 1)

\* store.trie: every title of every document inserted with the document's id
RECURSIVE insertTitles(_, _, _)
insertTitles(node, doc, k) ==
    IF k > Len(doc.titles) THEN node
    ELSE insertTitles(insertNode(node, joinUnderscore(toLowerCase(doc.titles[k].text)), doc.id),
                      doc, k + 1)

RECURSIVE buildTrie(_, _)
buildTrie(node, documents) ==
    IF documents = <<>> THEN node
    ELSE buildTrie(insertTitles(node, documents[1], 1), Tail(documents))

\* store.documents[doc.id] = doc: the documents keyed by their id (a property
\* key is the string of the number); a later document replaces an earlier one
\* stored under the same key
storeDocuments(documents) ==
    [key \in {toString(documents[k].id) : k \in 1..Len(documents)} |->
        LET last == CHOOSE k \in 1..Len(documents) :
                        /\ toString(documents[k].id) = key
                        /\ \A j \in (k + 1)..Len(documents) : toString(documents[j].id) # key
        IN documents[last]]

(***************************************************************************)
(* generateIndex and the beforePublish handler (lib/generate-index.js,     *)
(* lib/index.js).  A page is                                               *)
(*   [out, noindex, version, robots, component, url, body, headings]:      *)
(* out = it has a publish target, noindex = the noindex page attribute is  *)
(* set, robots = its contents holds <meta name=robots content=noindex>,    *)
(* headings = the h2..h6 of article.doc as [text, hash] in document order, *)
(* body = the article text that remains.                                   *)
(***************************************************************************)
\* component.latest of the page's component
LatestVersion == "2.0"

\* the page filter without the check of the version
isCandidateAnyVersion(page, latestOnly) == page.out /\ ~page.noindex

\* the filter passed to contentCatalog.getPages
isCandidate(page, latestOnly) ==
    /\ page.out /\ ~page.noindex
    /\ latestOnly => page.version = LatestVersion

\* contentCatalog.getPages(filter): the positions of the selected pages
RECURSIVE getPages(_, _, _)
getPages(catalog, latestOnly, k) ==
    IF k > Len(catalog) THEN <<>>
    ELSE (IF isCandidate(catalog[k], latestOnly) THEN <<k>> ELSE <<>>)
         \o getPages(catalog, latestOnly, k + 1)

\* /\s/.test(text)
hasWhitespace(str) == \E k \in 1..Len(str) : str[k] \in Whitespace

\* the loop over $('h2,h3,h4,h5,h6', article): the titles pushed, `id` being
\* the counter's value on entry
RECURSIVE extractTitles(_, _)
extractTitles(headings, id) ==
    IF headings = <<>> THEN <<>>
    ELSE LET title == headings[1]
             first == [text |-> title.text, hash |-> title.hash, id |-> id]
             second == [text |-> joinUnderscore(title.text), hash |-> title.hash, id |-> id + 1]
         IN IF hasWhitespace(title.text)
            THEN <<first, second>> \o extractTitles(Tail(headings), id + 2)
            ELSE <<first>> \o extractTitles(Tail(headings), id + 1)

\* extractIndexContent(page, $)
extractIndexContent(page) ==
    [text |-> page.body,
     component |-> page.component,
     version |-> page.version,
     url |-> page.url,
     titles |-> extractTitles(page.headings, 1)]

\* { id: id++, ...extractIndexContent(page, $) }
withId(shape, id) == [id |-> id] @@ shape

\* the reduce numbering a document by the position of its page among the
\* selected pages
RECURSIVE extractDocumentsByPosition(_, _, _)
extractDocumentsByPosition(catalog, selected, id) ==
    IF selected = <<>> THEN <<>>
    ELSE LET page == catalog[selected[1]]
         IN IF ~page.robots
            THEN <<withId(extractIndexContent(page), id)>>
                     \o extractDocumentsByPosition(catalog, Tail(selected), id + 1)
            ELSE extractDocumentsByPosition(catalog, Tail(selected), id + 1)

\* pages.reduce(...): the documents of the selected pages that carry no robots
\* noindex meta tag, `id` being the counter's value on entry
RECURSIVE extractDocuments(_, _, _)
extractDocuments(catalog, selected, id) ==
    IF selected = <<>> THEN <<>>
    ELSE LET page == catalog[selected[1]]
         IN IF ~page.robots
            THEN <<withId(extractIndexContent(page), id)>>
                     \o extractDocuments(catalog, Tail(selected), id + 1)
            ELSE extractDocuments(catalog, Tail(selected), id)

\* no generateIndex call yet
NotGenerated ==
    [called |-> FALSE, empty |-> TRUE, documents |-> <<>>, index |-> <<>>,
     store |-> [documents |-> <<>>, trie |-> TrieNode]]

\* generateIndex(playbook, contentCatalog, { indexLatestOnly }): the value
\* returned ({} when empty) and the pages whose contents was read
generateIndex(catalog, latestOnly) ==
    LET selected == getPages(catalog, latestOnly, 1)
        documents == extractDocuments(catalog, selected, 1)
    IN IF Len(selected) = 0
       THEN [read |-> {},
             result |-> [called |-> TRUE, empty |-> TRUE, documents |-> <<>>, index |-> <<>>,
                         store |-> [documents |-> <<>>, trie |-> TrieNode]]]
       ELSE [read |-> Range(selected),
             result |-> [called |-> TRUE, empty |-> FALSE, documents |-> documents,
                         index |-> buildIndex(documents),
                         store |-> [documents |-> storeDocuments(documents),
                                    trie |-> buildTrie(TrieNode, documents)]]]

(***************************************************************************)
(* The artifact: createIndexFile (lib/generate-index.js) encodes, and      *)
(* initSearch (data/js/index.js) decodes.  A byte string is modelled by    *)
(* the two bytes of its zlib header and the text its body inflates to.     *)
(***************************************************************************)
\* JSON.stringify(node) without a replacer: a Map serializes as {}
stringifyNode(node) ==
    [children |-> <<>>, isEndOfWord |-> node.isEndOfWord, data |-> node.data]

\* JSON.stringify(index) of the object generateIndex returned
stringify(index) ==
    [t |-> "object",
     v |-> [index |-> index.index,
            store |-> [documents |-> index.store.documents,
                       trie |-> [root |-> stringifyNode(index.store.trie)]]]]

\* pako.deflate(str): a zlib stream, CMF = 0x78 and FLG = 0x9C at the default
\* level, then the compressed body
deflate(str) == [header |-> <<120, 156>>, body |-> str]

\* btoa(binary string of the bytes): the base64 text
btoa(bytes) == [base64 |-> bytes]

\* createIndexFile(index): the file, or the TypeError of index.store.trie when
\* index is {}
createIndexFile(index) ==
    IF index.empty
    THEN [threw |-> "TypeError", file |-> <<>>]
    ELSE [threw |-> "",
          file |-> <<[path |-> "search-index.js",
                      lunrData |-> btoa(deflate(stringify(index))),
                      trieData |-> btoa(deflate(save(index.store.trie)))]>>]

\* createMarkdownIndexFile(index): one file object (not an array), or the
\* TypeError of index.store.documents when index is {}
createMarkdownIndexFile(index) ==
    IF index.empty
    THEN [threw |-> "TypeError", isArray |-> FALSE, file |-> <<>>]
    ELSE [threw |-> "", isArray |-> FALSE, file |-> <<[path |-> "site-index.md"]>>]

\* the beforePublish handler: the files added to the site catalog and the
\* exception that leaves it
beforePublish(catalog, latestOnly) ==
    LET index == generateIndex(catalog, latestOnly)
        indexFile == createIndexFile(index.result)
        markdownFiles == createMarkdownIndexFile(index.result)
    IN IF indexFile.threw # ""
       THEN [index |-> index, files |-> <<>>, threw |-> indexFile.threw]
       ELSE IF markdownFiles.threw # ""
       THEN [index |-> index, files |-> indexFile.file, threw |-> markdownFiles.threw]
       ELSE IF ~markdownFiles.isArray
       THEN [index |-> index, files |-> indexFile.file, threw |-> "TypeError"]
       ELSE [index |-> index, files |-> indexFile.file \o markdownFiles.file, threw |-> ""]

(***************************************************************************)
(* lunr at its interface: the query parser and Index.query                 *)
(***************************************************************************)
OPTIONAL == 1
REQUIRED == 2
PROHIBITED == 3
WildcardNONE == 0
WildcardLEADING == 1
WildcardTRAILING == 2

\* lunr.QueryLexer: a leading '+' or '-' is a PRESENCE lexeme, whitespace and
\* hyphens separate terms
RECURSIVE lex(_, _)
lex(str, cur) ==
    LET term == IF cur # <<>> THEN <<[type |-> "TERM", str |-> cur]>> ELSE <<>>
    IN IF str = <<>> THEN term
       ELSE IF Head(str) \in {"+", "-"} /\ cur = <<>>
            THEN <<[type |-> "PRESENCE", str |-> <<Head(str)>>]>> \o lex(Tail(str), <<>>)
       ELSE IF Head(str) \in {" ", "-"} THEN term \o lex(Tail(str), <<>>)
       ELSE lex(Tail(str), Append(cur, Head(str)))

newClause(str, presence) ==
    [term |-> toLowerCase(str), presence |-> presence,
     wildcard |-> WildcardNONE, usePipeline |-> TRUE]

\* lunr.QueryParser.parse: the clauses, or error (QueryParseError) when a
\* presence modifier is not followed by a term
RECURSIVE parseClauses(_)
parseClauses(lexemes) ==
    IF lexemes = <<>> THEN [error |-> FALSE, clauses |-> <<>>]
    ELSE IF lexemes[1].type = "PRESENCE"
    THEN IF Len(lexemes) < 2 \/ lexemes[2].type # "TERM"
         THEN [error |-> TRUE, clauses |-> <<>>]
         ELSE LET rest == parseClauses(SubSeq(lexemes, 3, Len(lexemes)))
              IN [error |-> rest.error,
                  clauses |-> <<newClause(lexemes[2].str,
                                          IF lexemes[1].str = <<"+">> THEN REQUIRED ELSE PROHIBITED)>>
                              \o rest.clauses]
    ELSE LET rest == parseClauses(Tail(lexemes))
         IN [error |-> rest.error,
             clauses |-> <<newClause(lexemes[1].str, OPTIONAL)>> \o rest.clauses]

parseQuery(queryString) == parseClauses(lex(queryString, <<>>))

\* a term with '*' wildcards against an index token
RECURSIVE glob(_, _)
glob(pattern, token) ==
    IF pattern = <<>> THEN token = <<>>
    ELSE IF Head(pattern) = "*"
         THEN glob(Tail(pattern), token) \/ (token # <<>> /\ glob(pattern, Tail(token)))
         ELSE token # <<>> /\ Head(token) = Head(pattern) /\ glob(Tail(pattern), Tail(token))

clauseMatches(clause, entry) == \E token \in entry.terms : glob(clause.term, token)

\* lunr.Index.query: the entries matched by an optional or required clause (all
\* entries when every clause is prohibited), that match every required clause
\* and no prohibited one; the entry order stands for the score order.
indexQuery(index, clauses) ==
    LET cs == {clauses[k] : k \in 1..Len(clauses)}
        negated == \A c \in cs : c.presence = PROHIBITED
        hit(entry) ==
            /\ negated \/ \E c \in cs : c.presence # PROHIBITED /\ clauseMatches(c, entry)
            /\ \A c \in cs : c.presence = REQUIRED => clauseMatches(c, entry)
            /\ \A c \in cs : c.presence = PROHIBITED => ~clauseMatches(c, entry)
        hits == SelectSeq(index, hit)
    IN [k \in 1..Len(hits) |-> [ref |-> hits[k].ref]]

(***************************************************************************)
(* The client query orchestrator (data/js/index.js)                        *)
(***************************************************************************)
maxLevenshteinDistance == 3

\* facetFilterInput.dataset.facetFilter, split on ':'
FacetFilter == [field |-> "component", value |-> "c1"]

\* documents[docId] of filter(): `documents` is a function of its property
\* keys (the id strings for store.documents, the index strings '0'.. for an
\* array); undefined when absent
hasKey(documents, docId) == docId \in DOMAIN documents

\* filter(result, documents): `threw` when doc is undefined (TypeError of
\* `field in doc`)
filter(result, documents, checked) ==
    IF checked
    THEN IF \E k \in 1..Len(result) : ~hasKey(documents, split(result[k].ref, "-")[1])
         THEN [threw |-> TRUE, result |-> <<>>]
         ELSE [threw |-> FALSE,
               result |-> SelectSeq(result, LAMBDA item :
                              documents[split(item.ref, "-")[1]].component = FacetFilter.value)]
    ELSE [threw |-> FALSE, result |-> result]

\* clause => { clause.term = clause.term + '*'; wildcard = TRAILING; ... }
beginsWith(clause) ==
    IF clause.presence # PROHIBITED
    THEN [clause EXCEPT !.term = Append(@, "*"), !.wildcard = WildcardTRAILING,
                        !.usePipeline = FALSE]
    ELSE clause

\* clause => { clause.term = '*' + clause.term + '*'; wildcard = LEADING | TRAILING; ... }
contains(clause) ==
    IF clause.presence # PROHIBITED
    THEN [clause EXCEPT !.term = <<"*">> \o @ \o <<"*">>,
                        !.wildcard = WildcardLEADING + WildcardTRAILING,
                        !.usePipeline = FALSE]
    ELSE clause

\* one index.query call of search(): the clauses queried, what the index
\* returned (raw) and what filter() made of it
issuedQuery(step, clauses, raw, filtered) ==
    [step |-> step, clauses |-> clauses, raw |-> raw,
     threw |-> filtered.threw, result |-> filtered.result]

searchReturn(outcome, result, issued) ==
    [outcome |-> outcome, result |-> result, issued |-> issued]

\* search() escalating also when an earlier query had results
searchNoEarlyReturn(index, documents, queryString, checked) ==
    LET parsed == parseQuery(queryString)
        c1 == parsed.clauses
        r1 == indexQuery(index, c1)
        f1 == filter(r1, documents, checked)
        q1 == issuedQuery("exact", c1, r1, f1)
        c2 == [k \in 1..Len(c1) |-> beginsWith(c1[k])]
        r2 == indexQuery(index, c2)
        f2 == filter(r2, documents, checked)
        q2 == issuedQuery("beginsWith", c2, r2, f2)
        c3 == [k \in 1..Len(c2) |-> contains(c2[k])]
        r3 == indexQuery(index, c3)
        f3 == filter(r3, documents, checked)
        q3 == issuedQuery("contains", c3, r3, f3)
    IN IF parsed.error THEN searchReturn("QueryParseError", <<>>, <<>>)
       ELSE IF f1.threw THEN searchReturn("TypeError", <<>>, <<q1>>)
       ELSE IF f2.threw THEN searchReturn("TypeError", <<>>, <<q1, q2>>)
       ELSE IF f3.threw THEN searchReturn("TypeError", <<>>, <<q1, q2, q3>>)
       ELSE searchReturn("ok", f3.result, <<q1, q2, q3>>)

\* search(index, documents, queryString): the value returned or the exception
\* thrown, and the index queries issued.  The clause objects of the first
\* query are mutated in place by each later step.
search(index, documents, queryString, checked) ==
    LET parsed == parseQuery(queryString)
        c1 == parsed.clauses
        r1 == indexQuery(index, c1)
        f1 == filter(r1, documents, checked)
        q1 == issuedQuery("exact", c1, r1, f1)
        c2 == [k \in 1..Len(c1) |-> beginsWith(c1[k])]
        r2 == indexQuery(index, c2)
        f2 == filter(r2, documents, checked)
        q2 == issuedQuery("beginsWith", c2, r2, f2)
        c3 == [k \in 1..Len(c2) |-> contains(c2[k])]
        r3 == indexQuery(index, c3)
        f3 == filter(r3, documents, checked)
        q3 == issuedQuery("contains", c3, r3, f3)
    IN IF parsed.error THEN searchReturn("QueryParseError", <<>>, <<>>)
       ELSE IF f1.threw THEN searchReturn("TypeError", <<>>, <<q1>>)
       ELSE IF Len(f1.result) > 0 THEN searchReturn("ok", f1.result, <<q1>>)
       ELSE IF f2.threw THEN searchReturn("TypeError", <<>>, <<q1, q2>>)
       ELSE IF Len(f2.result) > 0 THEN searchReturn("ok", f2.result, <<q1, q2>>)
       ELSE IF f3.threw THEN searchReturn("TypeError", <<>>, <<q1, q2, q3>>)
       ELSE searchReturn("ok", f3.result, <<q1, q2, q3>>)

\* text.trim() === ''
isBlank(str) == \A k \in 1..Len(str) : str[k] = " "

\* !trieResults: an array is truthy, also when it is empty
notTruthy(array) == FALSE

\* new Set() filled by trieResults.forEach(r => r.data.forEach(d => add(d))):
\* the ids in first-occurrence order
RECURSIVE dedupe(_, _)
dedupe(ids, seen) ==
    IF ids = <<>> THEN <<>>
    ELSE IF Head(ids) \in seen THEN dedupe(Tail(ids), seen)
         ELSE <<Head(ids)>> \o dedupe(Tail(ids), seen \cup {Head(ids)})

RECURSIVE concatData(_)
concatData(trieResults) ==
    IF trieResults = <<>> THEN <<>>
    ELSE trieResults[1].data \o concatData(Tail(trieResults))

\* an array as a function of its property keys '0'..'length-1'
asArray(sq) ==
    [key \in {toString(i) : i \in 0..(Len(sq) - 1)} |->
        sq[CHOOSE k \in 1..Len(sq) : toString(k - 1) = key]]

\* a transient index that registers the titles of the documents as well
RECURSIVE scopedIndexWithTitles(_)
scopedIndexWithTitles(documents) ==
    IF documents = <<>> THEN <<>>
    ELSE titleEntries(documents[1]) \o <<docEntry(documents[1])>>
         \o scopedIndexWithTitles(Tail(documents))

\* the transient index: this.add(doc) for the filtered documents only
RECURSIVE scopedIndex(_)
scopedIndex(documents) ==
    IF documents = <<>> THEN <<>>
    ELSE <<docEntry(documents[1])>> \o scopedIndex(Tail(documents))

\* createSearchResult / createNoResult: the children of the dataset
renderDataset(result) ==
    IF Len(result) > 0
    THEN [k \in 1..Len(result) |-> [kind |-> "item", ref |-> result[k].ref]]
    ELSE <<[kind |-> "noresult", ref |-> <<>>]>>

searchIndexReturn(cont, mode, trieHits, s) ==
    [container |-> cont,
     trace |-> [ran |-> TRUE, mode |-> mode, trieHits |-> trieHits,
                issued |-> s.issued, outcome |-> s.outcome, result |-> s.result]]

NoSearch == searchReturn("ok", <<>>, <<>>)

\* searchIndex searching the full index and store again when the scoped
\* search found nothing
searchIndexRewiden(index, trieRoot, store, txt, checked) ==
    IF isBlank(txt)
    THEN searchIndexReturn(<<>>, "blank", <<>>, NoSearch)
    ELSE LET trieResults ==
                 searchWithLevenshteinWithData(trieRoot, toLowerCase(txt), maxLevenshteinDistance)
             trieDocIds == dedupe(concatData(trieResults), {})
             filteredDocuments == [k \in 1..Len(trieDocIds) |-> store[toString(trieDocIds[k])]]
             direct == search(index, store, txt, checked)
             scoped == search(scopedIndex(filteredDocuments), asArray(filteredDocuments),
                              txt, checked)
             mode == IF Len(trieDocIds) > 0 THEN "scoped" ELSE "none"
             s == IF mode = "scoped"
                  THEN IF scoped.outcome = "ok" /\ scoped.result = <<>>
                       THEN searchReturn(direct.outcome, direct.result,
                                         scoped.issued \o direct.issued)
                       ELSE scoped
                  ELSE NoSearch
         IN IF s.outcome = "ok"
            THEN searchIndexReturn(<<renderDataset(s.result)>>, mode, trieResults, s)
            ELSE searchIndexReturn(<<>>, mode, trieResults, s)

\* searchIndex(index, trie, store, text): the result container afterwards and
\* what was done.  mode: "direct" = search on the full index and store,
\* "scoped" = search on the transient index, "none" = no index was searched.
searchIndex(index, trieRoot, store, txt, checked) ==
    IF isBlank(txt)
    THEN searchIndexReturn(<<>>, "blank", <<>>, NoSearch)
    ELSE LET trieResults ==
                 searchWithLevenshteinWithData(trieRoot, toLowerCase(txt), maxLevenshteinDistance)
             trieDocIds == dedupe(concatData(trieResults), {})
             filteredDocuments == [k \in 1..Len(trieDocIds) |-> store[toString(trieDocIds[k])]]
             direct == search(index, store, txt, checked)
             scoped == search(scopedIndex(filteredDocuments), asArray(filteredDocuments),
                              txt, checked)
             mode == IF notTruthy(trieResults) THEN "direct"
                     ELSE IF Len(trieDocIds) > 0
                          THEN IF Len(filteredDocuments) > 0 THEN "scoped" ELSE "direct"
                          ELSE "none"
             s == IF mode = "direct" THEN direct
                  ELSE IF mode = "scoped" THEN scoped
                  ELSE NoSearch
         IN IF s.outcome = "ok"
            THEN searchIndexReturn(<<renderDataset(s.result)>>, mode, trieResults, s)
            ELSE searchIndexReturn(<<>>, mode, trieResults, s)

NoTrace ==
    [ran |-> FALSE, mode |-> "none", trieHits |-> <<>>, issued |-> <<>>,
     outcome |-> "none", result |-> <<>>]

\* the catch block of executeSearch: what it writes to the console for the
\* exception searchIndex threw
catchLog(outcome, value, debugMode) ==
    IF outcome = "QueryParseError"
    THEN IF debugMode
         THEN <<[level |-> "debug", text |-> "Invalid search query", query |-> value]>>
         ELSE <<>>
    ELSE IF outcome = "ok" THEN <<>>
    ELSE <<[level |-> "error", text |-> "Something went wrong while searching",
            query |-> value]>>

\* executeSearch(index): an empty query clears the results; an exception of
\* searchIndex is caught (the container was cleared before it was thrown)
executeSearch(documents, value, checked) ==
    IF value = <<>>
    THEN searchIndexReturn(<<>>, "blank", <<>>, NoSearch)
    ELSE searchIndex(buildIndex(documents), buildTrie(TrieNode, documents),
                     storeDocuments(documents), value, checked)

(***************************************************************************)
(* findTermPosition (search-result-highlighting.mjs) and highlightHit      *)
(* (data/js/index.js)                                                      *)
(***************************************************************************)
\* the non-breaking space, char code 160
Nbsp == "nbsp"

\* the characters that end a token: char codes 46, 44, 32, 9, 10, 13, 160
isTokenEnd(ch) == ch \in {".", ",", " ", "\t", "\n", "\r", Nbsp}

\* String.prototype.indexOf(t) searched from position `from`: -1 when absent
RECURSIVE indexOfFrom(_, _, _)
indexOfFrom(str, t, from) ==
    IF from + Len(t) > Len(str) THEN -1
    ELSE IF SubSeq(str, from + 1, from + Len(t)) = t THEN from
    ELSE indexOfFrom(str, t, from + 1)

indexOf(str, t) == indexOfFrom(str, t, 0)

\* the while loop: the end of the token that holds position `end`
RECURSIVE tokenEnd(_, _)
tokenEnd(str, end) ==
    IF end < Len(str) /\ ~isTokenEnd(str[end + 1]) THEN tokenEnd(str, end + 1) ELSE end

\* findTermPosition looking for the term as typed, not lowercased
findTermPositionCaseSensitive(term, txt) ==
    LET index == indexOf(txt, term)
    IN IF index = -1 THEN [start |-> 0, length |-> 0]
       ELSE [start |-> index, length |-> tokenEnd(txt, index + Len(term)) - index]

\* findTermPosition(lunr, term, text)
findTermPosition(term, txt) ==
    LET str == toLowerCase(txt)
        t == toLowerCase(term)
        index == indexOf(str, t)
    IN IF index = -1 THEN [start |-> 0, length |-> 0]
       ELSE [start |-> index, length |-> tokenEnd(str, index + Len(t)) - index]

\* getTermPosition(text, terms): the positions found, sorted by start
getTermPosition(txt, terms) ==
    SortByStart(SelectSeq([k \in 1..Len(terms) |-> findTermPosition(terms[k], txt)],
                          LAMBDA position : position.length > 0))

\* searchMetadata is the sequence of its <<term, fields>> entries in key
\* order.  terms[field] taken from every term, whatever field it matched in
termsOfAnyField(searchMetadata, field) ==
    [k \in 1..Len(searchMetadata) |-> searchMetadata[k].term]

\* terms[field] of highlightHit: the terms that matched in the field
termsOf(searchMetadata, field) ==
    LET matched == SelectSeq(searchMetadata,
                             LAMBDA entry : \E k \in 1..Len(entry.fields) :
                                                entry.fields[k] = field)
    IN [k \in 1..Len(matched) |-> matched[k].term]

highlightPageTitle(title, terms, snippetLen) ==
    buildHighlightedText(title, getTermPosition(title, terms), snippetLen).nodes

\* sectionTitle is [present, text]
highlightSectionTitle(sectionTitle, terms, snippetLen) ==
    IF sectionTitle.present
    THEN buildHighlightedText(sectionTitle.text,
                              getTermPosition(sectionTitle.text, terms), snippetLen).nodes
    ELSE <<>>

\* doc.keyword is falsy when it is undefined or ''
highlightKeyword(doc, terms, snippetLen) ==
    IF doc.keyword # <<>>
    THEN buildHighlightedText(doc.keyword, getTermPosition(doc.keyword, terms), snippetLen).nodes
    ELSE <<>>

highlightText(doc, terms, snippetLen) ==
    buildHighlightedText(doc.text, getTermPosition(doc.text, terms), snippetLen).nodes

\* highlightHit(searchMetadata, sectionTitle, doc), with the configured
\* snippetLength
highlightHit(searchMetadata, sectionTitle, doc, snippetLen) ==
    [pageTitleNodes |-> highlightPageTitle(doc.title, termsOf(searchMetadata, "title"),
                                           snippetLen),
     sectionTitleNodes |-> highlightSectionTitle(sectionTitle,
                                                 termsOf(searchMetadata, "title"), snippetLen),
     pageContentNodes |-> highlightText(doc, termsOf(searchMetadata, "text"), snippetLen),
     pageKeywordNodes |-> highlightKeyword(doc, termsOf(searchMetadata, "keyword"),
                                           snippetLen)]

\* no call yet
NoArgs == [called |-> FALSE]
NoPosition == [start |-> 0, length |-> 0]
NoNodes ==
    [pageTitleNodes |-> <<>>, sectionTitleNodes |-> <<>>, pageContentNodes |-> <<>>,
     pageKeywordNodes |-> <<>>]

\* clearSearchResults(reset): searchResultContainer.innerHTML = '', and
\* searchInput.value = '' when reset === true
clearSearchResultsKeep(cont, value, reset) ==
    [container |-> cont, value |-> IF reset THEN <<>> ELSE value]

clearSearchResults(cont, value, reset) ==
    [container |-> <<>>, value |-> IF reset THEN <<>> ELSE value]

\* the wait of the debounced keydown listener, in ms
DebounceWait == 100

\* clearTimeout(id): the timer is no longer pending; clearTimeout(null) does
\* nothing
clearTimeoutNever(pending, id) == pending

clearTimeout(pending, id) == SelectSeq(pending, LAMBDA timer : timer.id # id)

\* the function debounce(func, wait) returns, called with e: the pending
\* timers and the closure's `timeout` afterwards
debounced(pending, id, newId, e) ==
    [timers |-> Append(clearTimeout(pending, id),
                       [id |-> newId, remaining |-> DebounceWait, args |-> e]),
     timeout |-> newId]

\* no execution yet
NoQuery == [ran |-> FALSE, value |-> <<>>, checked |-> FALSE, replaced |-> FALSE]

\* base64ToBytes(str): the bytes a well-formed base64 text stands for
base64ToBytes(str) == str.base64

\* the replacement character of a UTF-8 decoder
ReplacementChar == 65533

\* new TextDecoder().decode(bytes), then split('') and charCodeAt(0): a byte
\* below 0x80 is its own character; 0x80..0xBF cannot start a UTF-8 sequence
\* and decodes to U+FFFD.  The body is taken as decoded without loss.
decode(bytes) ==
    [header |-> [k \in 1..Len(bytes.header) |->
                    IF bytes.header[k] < 128 THEN bytes.header[k] ELSE ReplacementChar],
     body |-> bytes.body]

\* window.pako.inflate(data, { to: 'string' }): the zlib header check
\* ((CMF << 8) + FLG) % 31 = 0 comes first
inflate(data) ==
    IF (data.header[1] * 256 + data.header[2]) % 31 # 0
    THEN [threw |-> "incorrect header check", str |-> NoJson]
    ELSE [threw |-> "", str |-> data.body]

\* lunr.Index.load(serializedIndex) reads serializedIndex.pipeline first:
\* lunr.Pipeline.load(undefined) is a TypeError
indexLoad(serializedIndex) ==
    IF "pipeline" \in DOMAIN serializedIndex
    THEN [threw |-> "", index |-> serializedIndex]
    ELSE [threw |-> "TypeError", index |-> <<>>]

\* no initSearch call yet
NoIndex ==
    [called |-> FALSE, threw |-> "", index |-> <<>>, store |-> Undefined,
     trie |-> NodeRoot(TrieNode)]

\* initSearch: nothing is built unless every step returns
initSearchFailed(exception) ==
    [called |-> TRUE, threw |-> exception, index |-> <<>>, store |-> Undefined,
     trie |-> NodeRoot(TrieNode)]

\* initSearch(lunr, data, trieData): the `index` object the listeners close
\* over; store is data.store of the inflated text, a string
initSearch(lunrData, trieData) ==
    LET data == inflate(decode(base64ToBytes(lunrData)))
        trieDataJSON == inflate(decode(base64ToBytes(trieData)))
    IN IF data.threw # "" THEN initSearchFailed(data.threw)
       ELSE IF trieDataJSON.threw # "" THEN initSearchFailed(trieDataJSON.threw)
       ELSE LET loaded == indexLoad(data.str.v)
            IN IF loaded.threw # "" THEN initSearchFailed(loaded.threw)
               ELSE [called |-> TRUE, threw |-> "", index |-> loaded.index,
                     store |-> Undefined,
                     trie |-> loadUser(TrieNode, trieDataJSON.str).root]

(***************************************************************************)
(* Idle values of the variables a specification does not use               *)
(***************************************************************************)
TrieIdle ==
    /\ root = TrieNode /\ inserted = <<>> /\ lastOp = "init"
    /\ query = <<>> /\ maxDistance = 0 /\ results = <<>>
    /\ saved = NoJson /\ savedFrom = TrieNode /\ threw = ""

HlIdle ==
    /\ text = <<>> /\ positions = <<>> /\ snippetLength = 0
    /\ hl = [done |-> FALSE, nodes |-> <<>>, range |-> [start |-> 0, end |-> 0]]

ClientIdle ==
    /\ site = <<>> /\ facetChecked = FALSE /\ inputValue = <<>>
    /\ container = <<>> /\ trace = NoTrace
    /\ debug = FALSE /\ consoleLog = <<>> /\ escaped = ""

BuildIdle ==
    /\ pages = <<>> /\ indexLatestOnly = FALSE /\ buildOp = "init"
    /\ contentsRead = {} /\ generated = NotGenerated /\ siteCatalog = <<>>
    /\ buildThrew = ""

ArtifactIdle == clientIndex = NoIndex

LoadIdle ==
    /\ loadSide = "" /\ loadArg = NoJson /\ loadRoot = NodeRoot(TrieNode) /\ loadThrew = "-"

UiIdle ==
    /\ timers = <<>> /\ timeout = 0 /\ keydownCount = 0 /\ sinceKeydown = 0
    /\ lastKey = "" /\ runs = <<>> /\ lastQuery = NoQuery

HitIdle ==
    /\ ftArgs = NoArgs /\ ftResult = NoPosition
    /\ hitArgs = NoArgs /\ hitNodes = NoNodes

MoreIdle == ArtifactIdle /\ LoadIdle /\ UiIdle /\ HitIdle

(***************************************************************************)
(* Specification of the trie: a LevenshteinTrie is populated by a sequence  *)
(* of insertWithData calls, then possibly saved and loaded, and searched.  *)
(* A search reads the trie only, so its record ends the explored run.      *)
(***************************************************************************)
InitTrie == TrieIdle /\ HlIdle /\ ClientIdle /\ BuildIdle /\ MoreIdle

\* trie.insertWithData(word, data)
InsertWithData(word, data) ==
    /\ Len(inserted) < MaxInserts
    /\ lastOp \in {"init", "insert"}
    /\ root' = insertNode(root, word, data)
    /\ threw' = IF insertThrows(root, word) THEN "TypeError" ELSE ""
    /\ inserted' = IF insertThrows(root, word) THEN inserted ELSE Append(inserted, <<word, data>>)
    /\ lastOp' = "insert"
    /\ query' = <<>> /\ maxDistance' = 0 /\ results' = <<>>
    /\ UNCHANGED <<saved, savedFrom>>
    /\ UNCHANGED <<hlVars, clientVars, buildVars, moreVars>>

\* results = trie.searchWithLevenshteinWithData(word, maxDist)
SearchWithLevenshteinWithData(word, maxDist) ==
    /\ lastOp # "search"
    /\ query' = word
    /\ maxDistance' = maxDist
    /\ results' = searchWithLevenshteinWithData(root, word, maxDist)
    /\ lastOp' = "search"
    /\ threw' = ""
    /\ UNCHANGED <<root, inserted, saved, savedFrom>>
    /\ UNCHANGED <<hlVars, clientVars, buildVars, moreVars>>

\* saved = trie.save()
Save ==
    /\ lastOp \in {"init", "insert"}
    /\ saved' = save(root)
    /\ savedFrom' = root
    /\ lastOp' = "save"
    /\ threw' = ""
    /\ query' = <<>> /\ maxDistance' = 0 /\ results' = <<>>
    /\ UNCHANGED <<root, inserted>>
    /\ UNCHANGED <<hlVars, clientVars, buildVars, moreVars>>

\* trie.load(saved) on the trie that saved (fresh = FALSE), or
\* new LevenshteinTrie().load(saved) (fresh = TRUE)
Load(fresh) ==
    /\ lastOp = "save"
    /\ root' = load(IF fresh THEN TrieNode ELSE root, saved)
    /\ threw' = IF loadThrows(saved) THEN "TypeError" ELSE ""
    /\ inserted' = IF fresh /\ loadThrows(saved) THEN <<>> ELSE inserted
    /\ lastOp' = "load"
    /\ query' = <<>> /\ maxDistance' = 0 /\ results' = <<>>
    /\ UNCHANGED <<saved, savedFrom>>
    /\ UNCHANGED <<hlVars, clientVars, buildVars, moreVars>>

NextTrie ==
    \/ \E word \in Terms, data \in DocIds : InsertWithData(word, data)
    \/ \E word \in Queries, maxDist \in SearchDistances :
           SearchWithLevenshteinWithData(word, maxDist)
    \/ Save
    \/ \E fresh \in BOOLEAN : Load(fresh)

SpecTrie == InitTrie /\ [][NextTrie]_vars

(***************************************************************************)
(* Properties of the trie                                                  *)
(***************************************************************************)
\* the edit distance by its definition: the least number of single-character
\* insertions, deletions and substitutions turning a into b
RECURSIVE EditDistance(_, _)
EditDistance(a, b) ==
    IF a = <<>> THEN Len(b)
    ELSE IF b = <<>> THEN Len(a)
    ELSE IF Head(a) = Head(b) THEN EditDistance(Tail(a), Tail(b))
    ELSE 1 + Min3(EditDistance(Tail(a), Tail(b)), EditDistance(a, Tail(b)), EditDistance(Tail(a), b))

ResultWords(res) == {res[k].word : k \in 1..Len(res)}
ResultSet(res) == {res[k] : k \in 1..Len(res)}
InsertedTerms == {inserted[i][1] : i \in 1..Len(inserted)}

\* C1: a search returns every inserted term whose Levenshtein distance to the
\* query is at most maxDistance.
C1_SearchComplete ==
    lastOp = "search" =>
        \A term \in InsertedTerms :
            EditDistance(term, query) <= maxDistance => term \in ResultWords(results)

\* C2: load(save()) completes, and afterwards every query at every distance
\* returns the result set (words and data) of the trie that was saved.
C2_RoundTrip ==
    lastOp = "load" =>
        /\ threw = ""
        /\ \A q \in Queries, d \in Distances :
               ResultSet(searchWithLevenshteinWithData(root, q, d))
                   = ResultSet(searchWithLevenshteinWithData(savedFrom, q, d))

C4_MonotoneInDistance ==
    lastOp = "search" =>
        \A d1 \in 0..maxDistance :
            ResultWords(searchWithLevenshteinWithData(root, query, d1)) \subseteq ResultWords(results)

C4_Witness ==
    /\ lastOp = "search" /\ maxDistance = 2
    /\ ResultWords(searchWithLevenshteinWithData(root, query, 0)) # {}
    /\ ResultWords(searchWithLevenshteinWithData(root, query, 0)) # ResultWords(results)

\* C5: no term appears in more than one entry of a search result.
C5_DistinctTerms ==
    lastOp = "search" =>
        \A i, j \in 1..Len(results) : i # j => results[i].word # results[j].word

(***************************************************************************)
(* Specification of the highlight engine: buildHighlightedText applied to  *)
(* a text, a list of positions and a snippet length.  The function only    *)
(* copies characters, so a text is taken with pairwise distinct characters:*)
(* two slices are then equal exactly when they are the same span.          *)
(***************************************************************************)
Alphabet == <<"a", "b", "c", "d", "e", "f", "g", "h">>
Texts == {SubSeq(Alphabet, 1, n) : n \in 0..MaxTextLen}
Positions == [start : 0..MaxTextLen, length : 0..MaxPosLen]
\* no position, one, or two (two matched terms)
PositionLists == {<<>>} \cup {<<p>> : p \in Positions} \cup {<<p, q>> : p, q \in Positions}

InitHL ==
    /\ TrieIdle /\ ClientIdle /\ BuildIdle /\ MoreIdle
    /\ text \in Texts
    /\ positions \in PositionLists
    /\ snippetLength \in 0..MaxSnippet
    /\ hl = [done |-> FALSE, nodes |-> <<>>, range |-> [start |-> 0, end |-> 0]]

\* nodes = buildHighlightedText(text, positions, snippetLength)
BuildHighlightedText ==
    /\ ~hl.done
    /\ hl' = [done |-> TRUE,
              nodes |-> buildHighlightedText(text, positions, snippetLength).nodes,
              range |-> buildHighlightedText(text, positions, snippetLength).range]
    /\ UNCHANGED <<text, positions, snippetLength>>
    /\ UNCHANGED <<trieVars, clientVars, buildVars, moreVars>>

NextHL == BuildHighlightedText

SpecHL == InitHL /\ [][NextHL]_vars

(***************************************************************************)
(* Properties of buildHighlightedText                                      *)
(***************************************************************************)
StripEllipsis(str) == SelectSeq(str, LAMBDA c : c # Ellipsis)

RECURSIVE ConcatText(_)
ConcatText(nodes) ==
    IF nodes = <<>> THEN <<>> ELSE nodes[1].text \o ConcatText(Tail(nodes))

AllValid == positions # <<>> /\ validPositions(text, positions) = positions

\* C6: for positions lying inside the text (overlapping or coinciding ones
\* included), the nodes' text without the ellipsis markers, concatenated,
\* is exactly text.slice(range.start, range.end).
C6_ConcatIsWindow ==
    (hl.done /\ AllValid) =>
        StripEllipsis(ConcatText(hl.nodes)) = Slice(text, hl.range.start, hl.range.end)

\* C7: with no valid position the result is one "text" node holding the
\* first min(snippetLength, len(text)) characters, followed by the ellipsis
\* marker exactly when snippetLength < len(text).
C7_NoPositionSingleNode ==
    (hl.done /\ validPositions(text, positions) = <<>>) =>
        /\ Len(hl.nodes) = 1
        /\ hl.nodes[1].type = "text"
        /\ StripEllipsis(hl.nodes[1].text) = SubSeq(text, 1, Min2(snippetLength, Len(text)))
        /\ (snippetLength < Len(text)) <=>
               (hl.nodes[1].text = Append(SubSeq(text, 1, Min2(snippetLength, Len(text))), Ellipsis))
        /\ (snippetLength >= Len(text)) <=> (hl.nodes[1].text = text)

C7_Witness ==
    /\ hl.done /\ positions # <<>> /\ validPositions(text, positions) = <<>>
    /\ snippetLength = 2 /\ Len(text) = 3
    /\ hl.nodes = <<[type |-> "text", text |-> <<"a", "b", Ellipsis>>]>>

\* C8: snippetLength is an upper limit: the nodes never hold more than
\* snippetLength characters of the text (stated for a positive snippetLength;
\* with 0 the code returns the whole text).
C8_SnippetLengthIsLimit ==
    (hl.done /\ snippetLength > 0) =>
        Len(StripEllipsis(ConcatText(hl.nodes))) <= snippetLength

(***************************************************************************)
(* Specification of the client: searchIndex applied to the index, trie and *)
(* store of a site, a typed query and the state of the facet filter.       *)
(***************************************************************************)
DocTexts == {<<"a">>, <<"a", "b">>}
\* a one-letter title is within the probe's reach of a one-character query
TitleTexts == {<<"a">>, <<"a", "b">>}
Components == {"c1", "c2"}
TitleLists == {<<>>} \cup {<<[id |-> 1, text |-> t]>> : t \in TitleTexts}
DocShapes == [text : DocTexts, component : Components, titles : TitleLists]
\* sites of one or two documents, with the ids generateIndex assigns
Sites == {<<withId(d, 1)>> : d \in DocShapes}
             \cup {<<withId(d, 1), withId(e, 2)>> : d, e \in DocShapes}

InputChars == {"a", "b", "A", "-", " "}
Inputs == SeqsUpTo(InputChars, MaxInputLen)

InitClient ==
    /\ TrieIdle /\ HlIdle /\ BuildIdle /\ MoreIdle
    /\ site \in Sites
    /\ facetChecked \in BOOLEAN
    /\ inputValue \in Inputs
    /\ debug \in BOOLEAN
    /\ container = <<>>
    /\ trace = NoTrace
    /\ consoleLog = <<>>
    /\ escaped = ""

\* the debounced keydown handler: executeSearch(index)
ExecuteSearch ==
    /\ \E done \in {executeSearch(site, inputValue, facetChecked)} :
           /\ container' = done.container
           /\ trace' = done.trace
           /\ consoleLog' = catchLog(done.trace.outcome, inputValue, debug)
    /\ escaped' = ""
    /\ UNCHANGED <<site, facetChecked, inputValue, debug>>
    /\ UNCHANGED <<trieVars, hlVars, buildVars, moreVars>>

\* the facet checkbox changes: toggleFilter re-runs the search when the
\* result container is open
ToggleFilter ==
    /\ facetChecked' = ~facetChecked
    /\ IF container # <<>>
       THEN \E done \in {executeSearch(site, inputValue, ~facetChecked)} :
                /\ container' = done.container
                /\ trace' = done.trace
                /\ consoleLog' = catchLog(done.trace.outcome, inputValue, debug)
                /\ escaped' = ""
       ELSE UNCHANGED <<container, trace, consoleLog, escaped>>
    /\ UNCHANGED <<site, inputValue, debug>>
    /\ UNCHANGED <<trieVars, hlVars, buildVars, moreVars>>

NextClient == ExecuteSearch \/ ToggleFilter

SpecClient == InitClient /\ [][NextClient]_vars

(***************************************************************************)
(* Properties of the client                                                *)
(***************************************************************************)
\* the result the escalating strategy gives on the full index and store
DirectSearchOf(documents, value, checked) ==
    search(buildIndex(documents), storeDocuments(documents), value, checked)

\* C9: when the trie probe returns no match, searchIndex runs the escalating
\* strategy against the full index and the full store and renders its result.
C9_NoTrieHitsDirectSearch ==
    (trace.ran /\ trace.mode # "blank" /\ trace.trieHits = <<>>) =>
        /\ trace.mode = "direct"
        /\ DirectSearchOf(site, inputValue, facetChecked).outcome = "ok" =>
               container = <<renderDataset(DirectSearchOf(site, inputValue, facetChecked).result)>>

StepNames == <<"exact", "beginsWith", "contains">>
StepWildcards == <<WildcardNONE, WildcardTRAILING, WildcardLEADING + WildcardTRAILING>>

\* C10: search() issues at most three queries, in the order exact, trailing
\* wildcard, leading and trailing wildcard; a step is issued only if every
\* earlier one gave no result; the first non-empty result is what is returned;
\* when all three are empty the result is empty and "No results found" is
\* rendered.
C10_Escalation ==
    (trace.ran /\ trace.mode \in {"direct", "scoped"}) =>
        LET n == Len(trace.issued)
        IN /\ n <= 3
           /\ \A k \in 1..n :
                  /\ trace.issued[k].step = StepNames[k]
                  /\ \A c \in 1..Len(trace.issued[k].clauses) :
                         trace.issued[k].clauses[c].wildcard =
                             IF trace.issued[k].clauses[c].presence = PROHIBITED
                             THEN WildcardNONE ELSE StepWildcards[k]
           /\ \A k \in 1..(n - 1) : ~trace.issued[k].threw /\ trace.issued[k].result = <<>>
           /\ trace.outcome = "ok" =>
                  /\ n >= 1
                  /\ trace.result = trace.issued[n].result
                  /\ n < 3 => trace.result # <<>>
                  /\ trace.result # <<>> => container = <<renderDataset(trace.result)>>
                  /\ trace.result = <<>> =>
                         /\ n = 3
                         /\ container = <<<<[kind |-> "noresult", ref |-> <<>>]>>>>

\* a search answered by the second step, and one where all three are empty
C10_Witness ==
    /\ trace.ran /\ trace.outcome = "ok" /\ Len(trace.issued) = 2
    /\ trace.issued[1].result = <<>> /\ trace.result # <<>>
    /\ container = <<renderDataset(trace.result)>>

Rendered(kind) ==
    \E d \in 1..Len(container) : \E k \in 1..Len(container[d]) : container[d][k].kind = kind

ParseErrorLogged ==
    \E m \in 1..Len(consoleLog) :
        consoleLog[m].level = "debug" /\ consoleLog[m].query = inputValue

\* C11: for a query with malformed syntax no exception leaves executeSearch,
\* no result entry is rendered, and the parse error is logged exactly when
\* debug mode is enabled.
C11_ParseErrorRecovered ==
    (trace.ran /\ parseQuery(inputValue).error) =>
        /\ escaped = ""
        /\ ~Rendered("item")
        /\ debug <=> ParseErrorLogged

\* the document a ref names: the one whose id is the first '-'-part of the ref
DocOfRef(ref) == CHOOSE d \in Range(site) : toString(d.id) = split(ref, "-")[1]

KeptByFacet(raw) ==
    SelectSeq(raw, LAMBDA item : DocOfRef(item.ref).component = FacetFilter.value)

\* C12: in every query of a direct or scoped search, with the facet filter
\* active filter() keeps exactly the results whose document has the filter's
\* value in the filter's field, and with no active filter it returns the
\* results unchanged.
C12_FacetFilterExact ==
    (trace.ran /\ trace.mode \in {"direct", "scoped"}) =>
        \A k \in 1..Len(trace.issued) :
            /\ ~trace.issued[k].threw
            /\ trace.issued[k].result =
                   IF facetChecked THEN KeptByFacet(trace.issued[k].raw)
                   ELSE trace.issued[k].raw

\* the refs of the documents associated with the trie hits
HitDocRefs ==
    {toString(id) : id \in UNION {Range(trace.trieHits[k].data) : k \in 1..Len(trace.trieHits)}}

\* C13: when the trie probe has hits, every index query of searchIndex is
\* answered from the documents of those hits only and at most the three
\* escalation steps are issued; when the scoped search ends with no result,
\* that empty result is rendered ("No results found").
C13_ScopedOnly ==
    (trace.ran /\ trace.trieHits # <<>>) =>
        /\ trace.mode = "scoped"
        /\ Len(trace.issued) <= 3
        /\ \A k \in 1..Len(trace.issued) :
               \A r \in 1..Len(trace.issued[k].raw) :
                   trace.issued[k].raw[r].ref \in HitDocRefs
        /\ (trace.outcome = "ok" /\ trace.result = <<>>) =>
               container = <<<<[kind |-> "noresult", ref |-> <<>>]>>>>

\* a scoped search that ends empty although the full index has a match
C13_Witness ==
    /\ trace.ran /\ trace.trieHits # <<>> /\ trace.mode = "scoped"
    /\ trace.outcome = "ok" /\ trace.result = <<>>
    /\ DirectSearchOf(site, inputValue, facetChecked).outcome = "ok"
    /\ DirectSearchOf(site, inputValue, facetChecked).result # <<>>
    /\ container = <<<<[kind |-> "noresult", ref |-> <<>>]>>>>

(***************************************************************************)
(* Specification of the build side: generateIndex called on a content      *)
(* catalog (as the tests do), or the beforePublish handler run on it.      *)
(***************************************************************************)
\* an indexable page, and the four ways a page is left out
PageKinds ==
    {[out |-> TRUE, noindex |-> FALSE, version |-> "2.0", robots |-> FALSE],
     [out |-> FALSE, noindex |-> FALSE, version |-> "2.0", robots |-> FALSE],
     [out |-> TRUE, noindex |-> TRUE, version |-> "2.0", robots |-> FALSE],
     [out |-> TRUE, noindex |-> FALSE, version |-> "1.0", robots |-> FALSE],
     [out |-> TRUE, noindex |-> FALSE, version |-> "2.0", robots |-> TRUE]}

\* a one-word heading, a heading of two words separated by a space and one
\* of two words separated by another whitespace character
OneWord == [text |-> <<"a">>, hash |-> "_a"]
TwoWords == [text |-> <<"A", " ", "b">>, hash |-> "_a_b"]
TabWords == [text |-> <<"a", "\t", "b">>, hash |-> "_a_b_2"]
Headings == {OneWord, TwoWords, TabWords}

\* no heading, one, or two different ones
HeadingLists ==
    {<<>>} \cup {<<h>> : h \in Headings}
           \cup {<<hg[1], hg[2]>> : hg \in {x \in Headings \X Headings : x[1] # x[2]}}

PageShapes ==
    {kind @@ [component |-> "c1", body |-> <<"a">>, headings |-> hs] :
        kind \in PageKinds, hs \in HeadingLists}

\* page.pub.url: one per page
withUrl(shape, k) == [url |-> <<"/", "p", Digits[k + 1]>>] @@ shape

\* a catalog of the pages of the given shapes
catalogOf(shapes) == [k \in 1..Len(shapes) |-> withUrl(shapes[k], k)]

InitBuild ==
    /\ TrieIdle /\ HlIdle /\ ClientIdle /\ MoreIdle
    /\ \E n \in 0..MaxPages : \E shapes \in [1..n -> PageShapes] : pages = catalogOf(shapes)
    /\ indexLatestOnly \in BOOLEAN
    /\ buildOp = "init"
    /\ contentsRead = {}
    /\ generated = NotGenerated
    /\ siteCatalog = <<>>
    /\ buildThrew = ""

\* generated = generateIndex(playbook, contentCatalog, { indexLatestOnly })
GenerateIndex ==
    /\ buildOp = "init"
    /\ \E done \in {generateIndex(pages, indexLatestOnly)} :
           /\ generated' = done.result
           /\ contentsRead' = done.read
    /\ buildOp' = "generateIndex"
    /\ UNCHANGED <<pages, indexLatestOnly, siteCatalog, buildThrew>>
    /\ UNCHANGED <<trieVars, hlVars, clientVars, moreVars>>

\* Antora emits beforePublish: the handler registered by register()
BeforePublish ==
    /\ buildOp = "init"
    /\ \E done \in {beforePublish(pages, indexLatestOnly)} :
           /\ generated' = done.index.result
           /\ contentsRead' = done.index.read
           /\ siteCatalog' = done.files
           /\ buildThrew' = done.threw
    /\ buildOp' = "beforePublish"
    /\ UNCHANGED <<pages, indexLatestOnly>>
    /\ UNCHANGED <<trieVars, hlVars, clientVars, moreVars>>

\* the browser runs the contents of search-index.js:
\* antoraSearch.initSearch(lunr, lunrData, trieData)
InitSearch ==
    /\ buildOp # "init"
    /\ ~generated.empty
    /\ ~clientIndex.called
    /\ \E file \in {createIndexFile(generated).file[1]} :
           clientIndex' = initSearch(file.lunrData, file.trieData)
    /\ UNCHANGED buildVars
    /\ UNCHANGED <<trieVars, hlVars, clientVars, loadVars, uiVars, hitVars>>

NextBuild == GenerateIndex \/ BeforePublish \/ InitSearch

SpecBuild == InitBuild /\ [][NextBuild]_vars

(***************************************************************************)
(* Properties of the build side                                            *)
(***************************************************************************)
\* a page is a candidate: publish target, no noindex attribute and, with
\* indexLatestOnly, of the latest version of its component
Candidate(k) ==
    /\ pages[k].out /\ ~pages[k].noindex
    /\ indexLatestOnly => pages[k].version = "2.0"

CandidatePositions == {k \in 1..Len(pages) : Candidate(k)}
IndexablePositions == {k \in CandidatePositions : ~pages[k].robots}
NthIndexable(n) ==
    CHOOSE k \in IndexablePositions : Cardinality({j \in IndexablePositions : j < k}) = n - 1

Built == generated.called /\ ~generated.empty
StoreDocuments == generated.store.documents

\* C14: the keys of store.documents are exactly 1..N, N the number of
\* candidate pages without the robots noindex meta tag; the document stored
\* under i has id i and comes from the i-th such page in selection order.
C14_DenseIds ==
    Built =>
        LET N == Cardinality(IndexablePositions)
        IN /\ DOMAIN StoreDocuments = {toString(i) : i \in 1..N}
           /\ \A i \in 1..N :
                  /\ StoreDocuments[toString(i)].id = i
                  /\ StoreDocuments[toString(i)].url = pages[NthIndexable(i)].url

\* a page dropped for the robots meta tag before an indexed page
C14_Witness ==
    /\ Built /\ Len(pages) = 2
    /\ Candidate(1) /\ pages[1].robots
    /\ IndexablePositions = {2}
    /\ DOMAIN StoreDocuments = {<<"1">>}
    /\ StoreDocuments[<<"1">>].url = pages[2].url

\* C15: generateIndex reads the contents of candidate pages only, and no
\* page that is not a candidate appears in store.documents.
C15_ExcludedNeverRead ==
    generated.called =>
        /\ contentsRead \subseteq CandidatePositions
        /\ \A k \in (1..Len(pages)) \ CandidatePositions :
               \A key \in DOMAIN StoreDocuments : StoreDocuments[key].url # pages[k].url

\* a page left out only for its version, beside a page that was read
C15_Witness ==
    /\ generated.called /\ indexLatestOnly /\ Len(pages) = 2
    /\ pages[1].out /\ ~pages[1].noindex /\ pages[1].version = "1.0"
    /\ contentsRead = {2}
    /\ DOMAIN StoreDocuments = {<<"1">>}

\* C16: with no candidate page generateIndex returns the empty result and
\* the beforePublish handler ends without an exception, having added no
\* file to the site catalog.
C16_EmptyNothingToPublish ==
    (buildOp = "beforePublish" /\ CandidatePositions = {}) =>
        /\ generated.empty
        /\ buildThrew = ""
        /\ siteCatalog = <<>>

Documents == Range(generated.documents)
Index == generated.index
PageOf(doc) == pages[CHOOSE k \in 1..Len(pages) : pages[k].url = doc.url]

\* the title of doc a ref's second part names
TitlesNamed(doc, titleId) == {t \in Range(doc.titles) : toString(t.id) = titleId}

\* C17: every title of every indexed document has an index entry under
\* "<doc id>-<title id>"; the refs of the index are pairwise distinct; each
\* ref, split on "-", names a stored document and, with a second part,
\* exactly one title of that document: the title whose text the entry
\* indexes, carrying the anchor id of its heading.
C17_CompositeRefs ==
    Built =>
        /\ \A d \in Documents :
               /\ StoreDocuments[toString(d.id)] = d
               /\ \A t \in Range(d.titles) :
                      \E e \in 1..Len(Index) :
                          /\ Index[e].ref = toString(d.id) \o <<"-">> \o toString(t.id)
                          /\ Index[e].terms = tokenize(t.text, <<>>)
        /\ \A i, j \in 1..Len(Index) : i # j => Index[i].ref # Index[j].ref
        /\ \A e \in 1..Len(Index) :
               LET ids == split(Index[e].ref, "-")
               IN /\ ids[1] \in DOMAIN StoreDocuments
                  /\ Len(ids) = 1 => Index[e].terms = tokenize(StoreDocuments[ids[1]].text, <<>>)
                  /\ Len(ids) > 1 =>
                         LET doc == StoreDocuments[ids[1]]
                             named == TitlesNamed(doc, ids[2])
                         IN /\ Cardinality(named) = 1
                            /\ \A t \in named :
                                   /\ Index[e].terms = tokenize(t.text, <<>>)
                                   /\ \E h \in Range(PageOf(doc).headings) :
                                          /\ h.hash = t.hash
                                          /\ t.text \in {h.text, joinUnderscore(h.text)}

\* the second document's second title found under "2-2"
C17_Witness ==
    /\ Built /\ Len(generated.documents) = 2
    /\ \E e \in 1..Len(Index) :
           /\ Index[e].ref = <<"2", "-", "2">>
           /\ \E t \in Range(StoreDocuments[<<"2">>].titles) :
                  t.id = 2 /\ Index[e].terms = tokenize(t.text, <<>>)

\* the document extracted from the page at position k
DocumentOf(k) == CHOOSE d \in Documents : d.url = pages[k].url

\* C18: the titles of an indexed page are its headings, one title per
\* heading in document order, the n-th with id n.
C18_OneTitlePerHeading ==
    Built =>
        \A k \in IndexablePositions :
            /\ Len(DocumentOf(k).titles) = Len(pages[k].headings)
            /\ \A n \in 1..Len(pages[k].headings) :
                   DocumentOf(k).titles[n] =
                       [text |-> pages[k].headings[n].text,
                        hash |-> pages[k].headings[n].hash, id |-> n]

\* a heading of several words: whitespace with a word on either side
MultiWord(str) ==
    \E i, j, l \in 1..Len(str) :
        /\ i < j /\ j < l
        /\ str[i] \notin Whitespace /\ str[j] \in Whitespace /\ str[l] \notin Whitespace

\* the records the duplication contract gives a heading list, numbered from id
RECURSIVE ContractTitles(_, _)
ContractTitles(headings, id) ==
    IF headings = <<>> THEN <<>>
    ELSE LET h == headings[1]
             joined == [k \in 1..Len(h.text) |->
                           IF h.text[k] \in Whitespace THEN "_" ELSE h.text[k]]
         IN IF MultiWord(h.text)
            THEN <<[text |-> h.text, hash |-> h.hash, id |-> id],
                   [text |-> joined, hash |-> h.hash, id |-> id + 1]>>
                     \o ContractTitles(Tail(headings), id + 2)
            ELSE <<[text |-> h.text, hash |-> h.hash, id |-> id]>>
                     \o ContractTitles(Tail(headings), id + 1)

\* C19: a heading of several words gives two records, its text and then a
\* different, underscore-joined text, with the heading's hash and consecutive
\* ids; a one-word heading gives one record; the ids of a document's titles
\* are 1..n in order.
C19_DuplicationContract ==
    Built =>
        \A k \in IndexablePositions :
            /\ DocumentOf(k).titles = ContractTitles(pages[k].headings, 1)
            /\ \A n \in 1..Len(DocumentOf(k).titles) : DocumentOf(k).titles[n].id = n
            /\ \A n \in 1..(Len(DocumentOf(k).titles) - 1) :
                   DocumentOf(k).titles[n].hash = DocumentOf(k).titles[n + 1].hash
                       => DocumentOf(k).titles[n].text # DocumentOf(k).titles[n + 1].text

\* the term generateIndex inserts for a title: lower case, spaces as underscores
TrieTerm(str) ==
    [k \in 1..Len(str) |->
        IF str[k] = " " THEN "_" ELSE IF str[k] = "A" THEN "a" ELSE IF str[k] = "B" THEN "b"
        ELSE str[k]]

\* the nodes of a trie with the word spelt by their path
RECURSIVE TrieNodes(_, _)
TrieNodes(node, prefix) ==
    {[word |-> prefix, node |-> node]}
        \cup UNION {TrieNodes(node.children[k][2], Append(prefix, node.children[k][1])) :
                        k \in 1..Len(node.children)}

\* C20: for every title of every indexed document the trie holds the
\* title's lower-cased, underscore-joined text as an end-of-word term with
\* the document's id in its data; every id in a node's data is the id of a
\* stored document and every end-of-word term comes from a title.
C20_TrieOfTitles ==
    Built =>
        /\ \A d \in Documents : \A t \in Range(d.titles) :
               LET n == nodeAt(generated.store.trie, TrieTerm(t.text))
               IN n # <<>> /\ n[1].isEndOfWord /\ d.id \in Range(n[1].data)
        /\ \A wn \in TrieNodes(generated.store.trie, <<>>) :
               /\ \A id \in Range(wn.node.data) : toString(id) \in DOMAIN StoreDocuments
               /\ wn.node.isEndOfWord =>
                      \E d \in Documents : \E t \in Range(d.titles) : wn.word = TrieTerm(t.text)

\* two documents sharing the heading 'A b': the term 'a_b' holds both ids
C20_Witness ==
    /\ Built /\ Len(generated.documents) = 2
    /\ LET n == nodeAt(generated.store.trie, <<"a", "_", "b">>)
       IN n # <<>> /\ n[1].isEndOfWord /\ Range(n[1].data) = {1, 2}

(***************************************************************************)
(* Properties of the artifact round trip                                   *)
(***************************************************************************)
\* C21: once initSearch has processed the artifact createIndexFile made, the
\* client holds the document store the build made and a live trie, a node
\* tree and not its serialized text, that answers every query as the
\* build-time trie does.
C21_DecodeReversesEncode ==
    clientIndex.called =>
        /\ clientIndex.threw = ""
        /\ clientIndex.trie.t = "node"
        /\ clientIndex.store = generated.store.documents
        /\ \A word \in Queries :
               searchWithLevenshteinWithData(clientIndex.trie.v, word, maxLevenshteinDistance)
                   = searchWithLevenshteinWithData(generated.store.trie, word,
                                                   maxLevenshteinDistance)

(***************************************************************************)
(* Specification of load: a trie is populated, then load is called on the  *)
(* build-side or on the client-side class with a text that is not the      *)
(* complete serialization of a trie.                                       *)
(***************************************************************************)
\* a proper prefix of the text save() returned
Truncated(node) == [t |-> "truncated", v |-> save(node)]
\* characters that are no JSON at all
Corrupt == [t |-> "corrupt", v |-> 0]
\* JSON texts of another shape: 1, "children", [], [1], {"version":1},
\* {"children":1}
WrongShape ==
    <<JPrim(1), JPrim("children"), JArray(<<>>), JArray(<<JPrim(1)>>),
      JObject([version |-> JPrim(1)]), JObject([children |-> JPrim(1)])>>
LoadInputs(node) == <<Truncated(node), Corrupt>> \o WrongShape

InitLoad == TrieIdle /\ HlIdle /\ ClientIdle /\ BuildIdle /\ MoreIdle

\* trie.load(input) on the build-side LevenshteinTrie
LoadAny(k) ==
    /\ lastOp \in {"init", "insert"}
    /\ \E done \in {loadAny(root, LoadInputs(root)[k])} :
           /\ loadRoot' = done.root
           /\ loadThrew' = done.threw
    /\ loadSide' = "build"
    /\ loadArg' = LoadInputs(root)[k]
    /\ lastOp' = "load"
    /\ UNCHANGED <<root, inserted, query, maxDistance, results, saved, savedFrom, threw>>
    /\ UNCHANGED <<hlVars, clientVars, buildVars, artifactVars, uiVars, hitVars>>

\* trie.load(input) on the client-side LevenshteinTrieUser
LoadUser(k) ==
    /\ lastOp \in {"init", "insert"}
    /\ \E done \in {loadUser(root, LoadInputs(root)[k])} :
           /\ loadRoot' = done.root
           /\ loadThrew' = done.threw
    /\ loadSide' = "client"
    /\ loadArg' = LoadInputs(root)[k]
    /\ lastOp' = "load"
    /\ UNCHANGED <<root, inserted, query, maxDistance, results, saved, savedFrom, threw>>
    /\ UNCHANGED <<hlVars, clientVars, buildVars, artifactVars, uiVars, hitVars>>

NextLoad ==
    \/ \E word \in Terms, data \in DocIds : InsertWithData(word, data)
    \/ \E k \in 1..Len(LoadInputs(root)) : LoadAny(k)
    \/ \E k \in 1..Len(LoadInputs(root)) : LoadUser(k)

SpecLoad == InitLoad /\ [][NextLoad]_vars

\* C22: on either side, load on a text that is not the complete
\* serialization of a trie throws, and this.root is still the node tree it
\* was: no partial or malformed root is installed.
C22_LoadFailsLoudly ==
    lastOp = "load" =>
        /\ loadThrew # ""
        /\ loadRoot.t = "node"
        /\ loadRoot.v = root

(***************************************************************************)
(* Specification of the listeners initSearch registers: the debounced      *)
(* keydown listener of the search input, the change listener of the facet  *)
(* checkbox and the click listener of the document.  Every handler runs to *)
(* completion, so it is one step.                                          *)
(***************************************************************************)
UiSites ==
    {<<withId([text |-> <<"a", "b">>, component |-> "c1",
               titles |-> <<[id |-> 1, text |-> <<"a">>]>>], 1)>>,
     <<withId([text |-> <<"a">>, component |-> "c1", titles |-> <<>>], 1),
       withId([text |-> <<"a", "b">>, component |-> "c2",
               titles |-> <<[id |-> 1, text |-> <<"a">>]>>], 2)>>}

Keys == {"a", "-", " ", "Escape"}

\* searchInput.value after the key was typed
typed(value, key) == IF key = "Escape" THEN value ELSE Append(value, key)

InitUI ==
    /\ TrieIdle /\ HlIdle /\ BuildIdle /\ ArtifactIdle /\ LoadIdle /\ UiIdle /\ HitIdle
    /\ site \in UiSites
    /\ facetChecked \in BOOLEAN
    /\ inputValue = <<>>
    /\ debug = FALSE
    /\ container = <<>>
    /\ trace = NoTrace
    /\ consoleLog = <<>>
    /\ escaped = ""

\* executeSearch(index) on the current page: the container is cleared, then
\* the dataset is appended
Execute(checked) ==
    /\ \E cleared \in {clearSearchResults(container, inputValue, FALSE)} :
       \E done \in {executeSearch(site, cleared.value, checked)} :
           /\ container' = cleared.container \o done.container
           /\ trace' = done.trace
           /\ consoleLog' = catchLog(done.trace.outcome, inputValue, debug)
    /\ lastQuery' = [ran |-> TRUE, value |-> inputValue, checked |-> checked,
                     replaced |-> container # <<>>]
    /\ escaped' = ""

\* a keydown event on the search input: the debounced listener is called
Keydown(key) ==
    /\ keydownCount < MaxKeydowns
    /\ key # "Escape" => Len(inputValue) < MaxInputLen
    /\ inputValue' = typed(inputValue, key)
    /\ \E set \in {debounced(timers, timeout, keydownCount + 1, key)} :
           /\ timers' = set.timers
           /\ timeout' = set.timeout
    /\ keydownCount' = keydownCount + 1
    /\ sinceKeydown' = 0
    /\ lastKey' = key
    /\ UNCHANGED <<runs, lastQuery>>
    /\ UNCHANGED <<site, facetChecked, container, trace, debug, consoleLog, escaped>>
    /\ UNCHANGED <<trieVars, hlVars, buildVars, artifactVars, loadVars, hitVars>>

\* half the wait passes
Tick ==
    /\ keydownCount > 0
    /\ sinceKeydown < DebounceWait \/ \E k \in 1..Len(timers) : timers[k].remaining > 0
    /\ timers' = [k \in 1..Len(timers) |->
                     [timers[k] EXCEPT !.remaining =
                         IF @ > DebounceWait \div 2 THEN @ - DebounceWait \div 2 ELSE 0]]
    /\ sinceKeydown' = Min2(sinceKeydown + DebounceWait \div 2, DebounceWait)
    /\ UNCHANGED <<timeout, keydownCount, lastKey, runs, lastQuery>>
    /\ UNCHANGED clientVars
    /\ UNCHANGED <<trieVars, hlVars, buildVars, artifactVars, loadVars, hitVars>>

\* a timer is due: `later` runs, and with it the keydown listener
TimerFires(k) ==
    /\ k \in 1..Len(timers)
    /\ timers[k].remaining = 0
    /\ timers' = [j \in 1..(Len(timers) - 1) |-> IF j < k THEN timers[j] ELSE timers[j + 1]]
    /\ timeout' = 0
    /\ runs' = Append(runs, [keydown |-> timers[k].id, args |-> timers[k].args,
                             since |-> sinceKeydown, lastKey |-> lastKey,
                             keydowns |-> keydownCount])
    /\ IF timers[k].args = "Escape"
       THEN /\ \E cleared \in {clearSearchResults(container, inputValue, TRUE)} :
                   /\ container' = cleared.container
                   /\ inputValue' = cleared.value
            /\ UNCHANGED <<trace, consoleLog, escaped, lastQuery>>
       ELSE /\ Execute(facetChecked)
            /\ UNCHANGED inputValue
    /\ UNCHANGED <<keydownCount, sinceKeydown, lastKey>>
    /\ UNCHANGED <<site, facetChecked, debug>>
    /\ UNCHANGED <<trieVars, hlVars, buildVars, artifactVars, loadVars, hitVars>>

\* the facet checkbox changes: toggleFilter(e, index)
FacetChange ==
    /\ facetChecked' = ~facetChecked
    /\ IF container # <<>>
       THEN Execute(~facetChecked)
       ELSE UNCHANGED <<container, trace, consoleLog, escaped, lastQuery>>
    /\ UNCHANGED <<site, inputValue, debug>>
    /\ UNCHANGED <<timers, timeout, keydownCount, sinceKeydown, lastKey, runs>>
    /\ UNCHANGED <<trieVars, hlVars, buildVars, artifactVars, loadVars, hitVars>>

\* a click outside the search: clearSearchResults(event)
DocumentClick ==
    /\ container # <<>>
    /\ \E cleared \in {clearSearchResults(container, inputValue, FALSE)} :
           /\ container' = cleared.container
           /\ inputValue' = cleared.value
    /\ UNCHANGED <<site, facetChecked, trace, debug, consoleLog, escaped>>
    /\ UNCHANGED uiVars
    /\ UNCHANGED <<trieVars, hlVars, buildVars, artifactVars, loadVars, hitVars>>

NextUI ==
    \/ \E key \in Keys : Keydown(key)
    \/ Tick
    \/ \E k \in 1..Len(timers) : TimerFires(k)
    \/ FacetChange
    \/ DocumentClick

SpecUI == InitUI /\ [][NextUI]_vars

\* C23: the debounced callback runs only when the wait has passed since the
\* most recent keydown, at most once for a burst of keydowns, and with the
\* event of the last keydown; so there are never more runs than keydowns.
C23_Debounced ==
    /\ \A k \in 1..Len(runs) :
           /\ runs[k].since >= DebounceWait
           /\ runs[k].keydown = runs[k].keydowns
           /\ runs[k].args = runs[k].lastKey
    /\ \A j, k \in 1..Len(runs) : j < k => runs[j].keydown < runs[k].keydown
    /\ Len(runs) <= keydownCount

\* a burst of two keydowns was served by one run, and a later keydown by another
C23_Witness ==
    /\ Len(runs) = 2
    /\ keydownCount = 3
    /\ timers = <<>>

\* C28: the result container holds at most one dataset, the one the most
\* recent execution rendered for its query; an execution on an empty or
\* whitespace-only query, or one that fails, leaves the container empty.
C28_OneCurrentDataset ==
    /\ Len(container) <= 1
    /\ lastQuery.ran /\ container # <<>> =>
           container = executeSearch(site, lastQuery.value, lastQuery.checked).container
    /\ lastQuery.ran /\ (isBlank(lastQuery.value) \/ trace.outcome # "ok") =>
           container = <<>>

\* an execution replaced the dataset of an earlier query, and a failing one
\* emptied a container that held a dataset
C28_Witness ==
    /\ lastQuery.ran
    /\ lastQuery.replaced
    /\ trace.outcome # "ok"
    /\ container = <<>>

(***************************************************************************)
(* Specification of the highlighting of a hit: findTermPosition on a term  *)
(* and a text, and highlightHit on the metadata of a hit.                  *)
(***************************************************************************)
FtChars == {"a", "B", ".", ",", " "}
FtTermChars == {"a", "b", "B"}

HitTerms == {<<"a">>, <<"b">>}
FieldLists == {<<"title">>, <<"text">>, <<"keyword">>, <<"title", "text">>}
MetadataEntries == [term : HitTerms, fields : FieldLists]
\* the metadata of a hit: no term, one, or two different terms
Metadata ==
    {<<>>} \cup {<<e>> : e \in MetadataEntries}
           \cup {<<ef[1], ef[2]>> : ef \in {x \in MetadataEntries \X MetadataEntries :
                                                x[1].term # x[2].term}}
HitDocs ==
    [title : {<<"a">>, <<"B", "a">>}, text : {<<"a", " ", "b">>, <<"b", ".">>},
     keyword : {<<>>, <<"a">>}]
SectionTitles ==
    {[present |-> FALSE, text |-> <<>>], [present |-> TRUE, text |-> <<"a">>],
     [present |-> TRUE, text |-> <<"b">>]}

InitHit ==
    /\ TrieIdle /\ HlIdle /\ ClientIdle /\ BuildIdle
    /\ ArtifactIdle /\ LoadIdle /\ UiIdle /\ HitIdle

\* ftResult = findTermPosition(lunr, term, txt)
FindTermPosition(term, txt) ==
    /\ ~ftArgs.called /\ ~hitArgs.called
    /\ ftArgs' = [called |-> TRUE, term |-> term, text |-> txt]
    /\ ftResult' = findTermPosition(term, txt)
    /\ UNCHANGED <<hitArgs, hitNodes>>
    /\ UNCHANGED <<trieVars, hlVars, clientVars, buildVars, artifactVars, loadVars, uiVars>>

\* hitNodes = highlightHit(searchMetadata, sectionTitle, doc)
HighlightHit(searchMetadata, sectionTitle, doc, snippetLen) ==
    /\ ~ftArgs.called /\ ~hitArgs.called
    /\ hitArgs' = [called |-> TRUE, searchMetadata |-> searchMetadata,
                   sectionTitle |-> sectionTitle, doc |-> doc, snippetLength |-> snippetLen]
    /\ hitNodes' = highlightHit(searchMetadata, sectionTitle, doc, snippetLen)
    /\ UNCHANGED <<ftArgs, ftResult>>
    /\ UNCHANGED <<trieVars, hlVars, clientVars, buildVars, artifactVars, loadVars, uiVars>>

NextHit ==
    \/ /\ ~ftArgs.called /\ ~hitArgs.called
       /\ \E term \in SeqsUpTo(FtTermChars, MaxQueryLen), txt \in SeqsUpTo(FtChars, MaxTextLen) :
              FindTermPosition(term, txt)
    \/ /\ ~ftArgs.called /\ ~hitArgs.called
       /\ \E searchMetadata \in Metadata, sectionTitle \in SectionTitles, doc \in HitDocs,
             snippetLen \in {1, MaxSnippet} :
              HighlightHit(searchMetadata, sectionTitle, doc, snippetLen)

SpecHit == InitHit /\ [][NextHit]_vars

\* some term of the metadata matched in the field
Matched(field) ==
    \E k \in 1..Len(hitArgs.searchMetadata) :
        \E j \in 1..Len(hitArgs.searchMetadata[k].fields) :
            hitArgs.searchMetadata[k].fields[j] = field

\* the four node lists, each with the index field it shows and whether the
\* hit has that text at all
HitSlots ==
    <<[nodes |-> hitNodes.pageTitleNodes, field |-> "title", present |-> TRUE],
      [nodes |-> hitNodes.sectionTitleNodes, field |-> "title",
       present |-> hitArgs.sectionTitle.present],
      [nodes |-> hitNodes.pageContentNodes, field |-> "text", present |-> TRUE],
      [nodes |-> hitNodes.pageKeywordNodes, field |-> "keyword",
       present |-> hitArgs.doc.keyword # <<>>]>>

\* the text holds the term, whatever the case
Holds(txt, term) ==
    \E i \in 0..(Len(txt) - Len(term)) :
        toLowerCase(SubSeq(txt, i + 1, i + Len(term))) = toLowerCase(term)

Occurrences(term, txt) ==
    {i \in 0..(Len(txt) - Len(term)) :
        toLowerCase(SubSeq(txt, i + 1, i + Len(term))) = toLowerCase(term)}

TokenEnds == {".", ",", " ", "\t", "\n", "\r"}

C25_WildcardTerms ==
    trace.ran =>
        \A k \in 1..Len(trace.issued) :
            \A c \in 1..Len(trace.issued[k].clauses) :
                LET asTyped == trace.issued[1].clauses[c].term
                    clause == trace.issued[k].clauses[c]
                IN IF clause.presence = PROHIBITED THEN clause.term = asTyped
                   ELSE /\ trace.issued[k].step = "beginsWith" =>
                               clause.term = asTyped \o <<"*">>
                        /\ trace.issued[k].step = "contains" =>
                               clause.term = <<"*">> \o asTyped \o <<"*">>

(***************************************************************************)
(* Further properties of buildHighlightedText (SpecHL)                     *)
(***************************************************************************)
\* the last node ends with the ellipsis
EndsWithEllipsis(nodes) ==
    /\ nodes # <<>>
    /\ nodes[Len(nodes)].text # <<>>
    /\ nodes[Len(nodes)].text[Len(nodes[Len(nodes)].text)] = Ellipsis

\* C26: with a valid position, when the excerpt window ends before the end of
\* the text the last node is a "text" node that ends with the ellipsis, and
\* when the window reaches the end of the text no node ends with it.
C26_TrailingEllipsis ==
    (hl.done /\ Len(validPositions(text, positions)) > 0) =>
        IF hl.range.end < Len(text)
        THEN hl.nodes[Len(hl.nodes)].type = "text" /\ EndsWithEllipsis(hl.nodes)
        ELSE ~EndsWithEllipsis(hl.nodes)

(***************************************************************************)
(* Further properties of the trie (SpecTrie)                               *)
(***************************************************************************)
\* the ids inserted for the term, in insertion order
InsertedData(term) ==
    LET calls == SelectSeq(inserted, LAMBDA call : call[1] = term)
    IN [i \in 1..Len(calls) |-> calls[i][2]]

\* C29: every entry a search returns is an inserted term whose Levenshtein
\* distance to the query is at most maxDistance, with exactly the ids
\* inserted for that term in insertion order; a negative maxDistance gives
\* an empty result.
C29_SearchSound ==
    lastOp = "search" =>
        /\ \A k \in 1..Len(results) :
               /\ results[k].word \in InsertedTerms
               /\ EditDistance(results[k].word, query) <= maxDistance
               /\ results[k].data = InsertedData(results[k].word)
        /\ maxDistance < 0 => results = <<>>

\* a fuzzy match: a term at distance 1 or more from the query is returned
\* with the two ids inserted for it
C29_Witness ==
    /\ lastOp = "search"
    /\ \E k \in 1..Len(results) :
           /\ EditDistance(results[k].word, query) >= 1
           /\ EditDistance(results[k].word, query) = maxDistance
           /\ Len(results[k].data) = 2
           /\ results[k].data[1] # results[k].data[2]

\* C30: every result of the scoped search is the ref of a whole document of
\* the scope: the transient index holds one entry per scoped document and
\* none for a section title, so no result of this path names a title.
C30_ScopedRefsAreDocuments ==
    (trace.ran /\ trace.mode = "scoped") =>
        \A k \in 1..Len(trace.issued) :
            \A r \in 1..Len(trace.issued[k].raw) :
                /\ Len(split(trace.issued[k].raw[r].ref, "-")) = 1
                /\ \E d \in 1..Len(site) : toString(site[d].id) = trace.issued[k].raw[r].ref
        /\ \A c \in 1..Len(container) :
               \A i \in 1..Len(container[c]) :
                   container[c][i].kind = "item" => Len(split(container[c][i].ref, "-")) = 1

\* a scoped search with results for a query that a title of the site
\* matches: the full index answers it with a title ref
C30_Witness ==
    /\ trace.ran /\ trace.mode = "scoped"
    /\ trace.outcome = "ok" /\ trace.result # <<>>
    /\ container = <<renderDataset(trace.result)>>
    /\ \E r \in 1..Len(DirectSearchOf(site, inputValue, facetChecked).result) :
           Len(split(DirectSearchOf(site, inputValue, facetChecked).result[r].ref, "-")) = 2
====
